---- MODULE Spec2Model ----
(***************************************************************************)
(* LogTide SDK client: buffer, flush scheduling, retry/send pipeline and   *)
(* circuit breaker (logtide_sdk/client.py, logtide_sdk/circuit_breaker.py).*)
(* Application threads 1..NumThreads call log, flush and close; thread 0   *)
(* is the flush timer's thread.  Every step of a thread is one action;     *)
(* a step that waits for a threading.Lock is enabled only while the lock   *)
(* is free.                                                                *)
(***************************************************************************)
EXTENDS Integers, Sequences, FiniteSets, TLC

\* ---------------------------------------------------------------- bounds
NumThreads == 1        \* application threads
MaxEntries == 3        \* log calls over the whole run
MaxFlushCalls == 2     \* explicit flush() calls over the whole run
MaxTimerFires == 1     \* firings of the flush timer
MaxTime == 1           \* the clock runs 0..MaxTime
MaxRetries == 2        \* options.max_retries ranges over {0, MaxRetries}
MaxCloseCalls == 2     \* close() calls over the whole run
MaxScopes == 3         \* with_trace_id / with_new_trace_id scopes entered over the whole run
MaxFailures == 5       \* failures recorded on a breaker that is driven directly
MaxResets == 2         \* reset_metrics() calls over the whole run
MaxCallers == 3        \* threads that call record_failure on one breaker

TimerThread == 0
NoThread == -1
AppThreads == 1..NumThreads
Threads == {TimerThread} \cup AppThreads
EntryIds == 1..MaxEntries
\* threads that open trace scopes and log inside them
ScopeThreads == 1..(NumThreads + 1)
AllThreads == Threads \cup ScopeThreads

\* Optional[str] without a value
None == "None"
\* trace ids the application passes in
TraceIds == {"X", "Y"}
\* an entry's own trace_id (models.py:19)
ExplicitIds == {None, "E"}
\* str(uuid.uuid4()): the n-th call returns a value no other call returns
Uuids ==
  <<"uuid-1", "uuid-2", "uuid-3", "uuid-4", "uuid-5", "uuid-6", "uuid-7",
    "uuid-8", "uuid-9", "uuid-10">>
Uuid(n) == Uuids[n]
UuidSet == {Uuids[n] : n \in 1..Len(Uuids)}

\* metadata dicts as sets of <<key, value>> pairs
GlobalMetas == {{}, {<<"env", "g">>}, {<<"env", "g">>, <<"host", "g">>}}
EntryMetas == {{}, {<<"env", "e">>}, {<<"user", "e">>}}
Keys(md) == {p[1] : p \in md}

\* ClientOptions values the runs are drawn from (models.py, ClientOptions):
\* the buffer holds a whole batch or is full before one; the breaker opens
\* at the first failure, once every attempt of a cycle has failed, or not
\* within one cycle
Configs ==
  { [batch_size |-> 3, max_buffer_size |-> m, max_retries |-> rt[1],
     retry_delay_ms |-> 100, circuit_breaker_threshold |-> rt[2],
     circuit_breaker_reset_ms |-> 1, flush_interval |-> fi,
     auto_trace_id |-> FALSE, global_metadata |-> {}] :
       m \in {2, 10},
       rt \in {<<0, 1>>, <<MaxRetries, 1>>, <<MaxRetries, MaxRetries + 1>>,
               <<MaxRetries, MaxRetries + 2>>},
       fi \in {0, 1} }

\* ClientOptions for the runs about trace ids and metadata: no timer, a
\* batch_size no run reaches (the default, models.py:44)
TraceConfigs ==
  { [batch_size |-> 100, max_buffer_size |-> m, max_retries |-> 0,
     retry_delay_ms |-> 100, circuit_breaker_threshold |-> 1,
     circuit_breaker_reset_ms |-> 1, flush_interval |-> 0,
     auto_trace_id |-> a, global_metadata |-> g] :
       m \in {2, 10}, a \in BOOLEAN, g \in GlobalMetas }

VARIABLES
  options,        \* self.options
  closed,         \* self._closed
  buffer,         \* self._buffer: sequence of entry ids
  buffer_lock,    \* holder of self._buffer_lock, or NoThread
  metrics_lock,   \* holder of self._metrics_lock, or NoThread
  metrics,        \* self._metrics
  latency_window, \* self._latency_window
  breaker,        \* self._circuit_breaker: state, failure_count, last_failure_time
  flush_timer,    \* self._flush_timer: "none", "armed", "fired", "cancelled"
  now,            \* time.time(), in ms
  pc,             \* per thread: the statement it is at
  ret,            \* per thread: who called flush ("none" for a direct call)
  entry,          \* per thread: the entry a log call carries
  logs,           \* per thread: logs_to_send / logs of the send pipeline
  attempt,        \* per thread: _send_logs_with_retry's attempt
  delay,          \* per thread: _send_logs_with_retry's delay, in ms
  nextId,         \* next fresh entry id
  flushCalls,     \* explicit flush() calls so far
  timerFires,     \* timer firings so far
  accepted,       \* history: ids appended to the buffer
  drainCount,     \* history: per id, the number of drained batches holding it
  cyc,            \* history: per thread, what its current send cycle did
  rejected,       \* history: log calls that raised BufferFullError
  closeLen,       \* history: buffer length when the closing close() returned, or -1
  closeCalls,     \* close() calls so far
  trace_id,       \* self._trace_id
  scopes,         \* per thread: its open with_trace_id scopes, innermost last
  content,        \* per thread: the entry its log call in progress carries
  uuids,          \* uuid.uuid4() calls so far
  scopeCount,     \* scopes entered so far
  lastExit,       \* history: the scope left last, by whom and how
  bcall,          \* a direct user of the CircuitBreaker: position in call(), history
  snapshot,       \* the ClientMetrics get_metrics returned last, as its holder has it
  reading,        \* get_metrics in progress: the field values read so far
  resets,         \* reset_metrics() calls so far
  breaker_lock,   \* holder of the breaker's self._lock, or NoThread
  rf,             \* per breaker thread: its place in record_failure, what it read
  opened,         \* history: moves of the client's breaker into OPEN
  appended        \* history: the entry ids in the order line 150 appended them

vars == <<options, closed, buffer, buffer_lock, metrics_lock, metrics,
          latency_window, breaker, flush_timer, now, pc, ret, entry, logs,
          attempt, delay, nextId, flushCalls, timerFires, accepted,
          drainCount, cyc, rejected, closeLen, closeCalls, trace_id, scopes,
          content, uuids, scopeCount, lastExit, bcall, snapshot, reading,
          resets, breaker_lock, rf, opened, appended>>

\* ------------------------------------------------------- circuit breaker
\* CircuitBreaker.__init__
BreakerInit == [state |-> "CLOSED", failure_count |-> 0, last_failure_time |-> 0]

\* _check_half_open forgetting line 92: the count survives the move to HALF_OPEN
CheckHalfOpenKeepsCount(b, time, reset_timeout_ms) ==
  IF b.state = "OPEN" /\ (time - b.last_failure_time) >= reset_timeout_ms
  THEN [b EXCEPT !.state = "HALF_OPEN"]
  ELSE b

\* _check_half_open without the test of line 90: OPEN ends at the next check
CheckHalfOpenNoWait(b, time, reset_timeout_ms) ==
  IF b.state = "OPEN"
  THEN [b EXCEPT !.state = "HALF_OPEN", !.failure_count = 0]
  ELSE b

\* CircuitBreaker._check_half_open
CheckHalfOpen(b, time, reset_timeout_ms) ==
  IF b.state = "OPEN" /\ (time - b.last_failure_time) >= reset_timeout_ms
  THEN [b EXCEPT !.state = "HALF_OPEN", !.failure_count = 0]
  ELSE b

\* record_success with the state forced to CLOSED whatever it was
RecordSuccessClosesAlways(b) ==
  [b EXCEPT !.failure_count = 0, !.state = "CLOSED"]

\* record_success forgetting line 46: the count survives a success
RecordSuccessKeepsCount(b) ==
  [b EXCEPT !.state = IF @ = "HALF_OPEN" THEN "CLOSED" ELSE @]

\* record_success forgetting lines 47-48: HALF_OPEN is left as it is
RecordSuccessKeepsState(b) == [b EXCEPT !.failure_count = 0]

\* CircuitBreaker.record_success
RecordSuccess(b) ==
  [b EXCEPT !.failure_count = 0,
            !.state = IF @ = "HALF_OPEN" THEN "CLOSED" ELSE @]

\* CircuitBreaker.record_failure
RecordFailure(b, time, threshold) ==
  [b EXCEPT !.failure_count = @ + 1,
            !.last_failure_time = time,
            !.state = IF b.failure_count + 1 >= threshold THEN "OPEN" ELSE @]

\* CircuitBreaker.reset
Reset(b) == [state |-> "CLOSED", failure_count |-> 0, last_failure_time |-> 0]

\* call, line 75, never refusing
CallRefusedNever(b) == FALSE

\* call, line 75: if self._state == CircuitState.OPEN
CallRefused(b) == b.state = "OPEN"

\* the breaker as the state property leaves it (the lazy check, under its lock)
StateRead == CheckHalfOpen(breaker, now, options.circuit_breaker_reset_ms)

\* the streak of recorded failures after a lazy check took the breaker from b1 to b2
StreakAfterCheck(n, b1, b2) ==
  IF b1.state = "OPEN" /\ b2.state = "HALF_OPEN" THEN 0 ELSE n

\* --------------------------------------------------------------- metrics
\* a ClientMetrics() that starts with a trip counted
ClientMetricsOneTrip ==
  [logs_sent |-> 0, logs_dropped |-> 0, errors |-> 0, retries |-> 0,
   avg_latency_ms |-> <<0, 1>>, circuit_breaker_trips |-> 1]

\* ClientMetrics()
MetricsInit ==
  [logs_sent |-> 0, logs_dropped |-> 0, errors |-> 0, retries |-> 0,
   avg_latency_ms |-> <<0, 1>>, circuit_breaker_trips |-> 0]

CycInit ==
  [phase |-> "none", n |-> 0, calls |-> 0, failed |-> 0, sawOpen |-> FALSE,
   openFirst |-> FALSE, sent |-> 0, dropped |-> 0, errors |-> 0,
   retries |-> 0, trips |-> 0, sleeps |-> <<>>, beforeClose |-> FALSE]

\* a direct user of the breaker before its first operation; streak counts the
\* failures recorded since the last recorded success, reset or move to HALF_OPEN
BCallInit ==
  [pc |-> "idle", invoked |-> 0, outcome |-> "none", last |-> "none",
   prev |-> BreakerInit, streak |-> 0]

\* a LogEntry before log() has looked at it
ContentInit ==
  [id |-> 0, trace_id |-> None, metadata |-> {}, explicit |-> None,
   own |-> {}, ctx |-> None, scope |-> None]

\* the threads that share one CircuitBreaker
BreakerThreads == 1..MaxCallers

\* a thread that has not called record_failure
RfInit == [pc |-> "idle", loaded |-> 0, done |-> FALSE]

\* no ClientMetrics has been returned by get_metrics yet
SnapshotInit == [ref |-> "none", val |-> MetricsInit, touched |-> FALSE]

\* a lock that excludes nobody
LockFreeAlways(lock) == TRUE

\* a threading.Lock can be taken
LockFree(lock) == lock = NoThread

\* what a step of thread t adds to its cycle's record of the metrics
CycAdd(c, m1, m2) ==
  [c EXCEPT !.sent = @ + (m2.logs_sent - m1.logs_sent),
            !.dropped = @ + (m2.logs_dropped - m1.logs_dropped),
            !.errors = @ + (m2.errors - m1.errors),
            !.retries = @ + (m2.retries - m1.retries),
            !.trips = @ + (m2.circuit_breaker_trips - m1.circuit_breaker_trips)]

\* ------------------------------------------------------------------ Init
\* a client with one of the configurations, whose earlier sends left one of
\* the pairs <<latency window, metrics>> of sent
InitAfter(configs, sent) ==
  /\ options \in configs
  /\ closed = FALSE
  /\ buffer = <<>>
  /\ buffer_lock = NoThread
  /\ metrics_lock = NoThread
  /\ \E s \in sent : latency_window = s[1] /\ metrics = s[2]
  /\ breaker = BreakerInit
  /\ flush_timer = IF options.flush_interval > 0 THEN "armed" ELSE "none"
  /\ now = 0
  /\ pc = [t \in AllThreads |-> "idle"]
  /\ ret = [t \in AllThreads |-> "none"]
  /\ entry = [t \in AllThreads |-> 0]
  /\ logs = [t \in AllThreads |-> <<>>]
  /\ attempt = [t \in AllThreads |-> 0]
  /\ delay = [t \in AllThreads |-> 0]
  /\ nextId = 1
  /\ flushCalls = 0
  /\ timerFires = 0
  /\ accepted = {}
  /\ drainCount = [i \in EntryIds |-> 0]
  /\ cyc = [t \in AllThreads |-> CycInit]
  /\ rejected = 0
  /\ closeLen = -1
  /\ closeCalls = 0
  /\ trace_id = None
  /\ scopes = [t \in AllThreads |-> <<>>]
  /\ content = [t \in AllThreads |-> ContentInit]
  /\ uuids = 0
  /\ scopeCount = 0
  /\ lastExit = [how |-> "none", old |-> None, id |-> None, by |-> NoThread]
  /\ bcall = BCallInit
  /\ snapshot = SnapshotInit
  /\ reading = <<>>
  /\ resets = 0
  /\ breaker_lock = NoThread
  /\ rf = [t \in BreakerThreads |-> RfInit]
  /\ opened = 0
  /\ appended = <<>>

\* a client that has sent nothing yet
InitWith(configs) == InitAfter(configs, {<<<<>>, MetricsInit>>})

\* a client with or without a flush timer
Init == InitWith(Configs)

\* a client without a flush timer: flush_interval = 0 (client.py:60)
SeqInit == InitWith({c \in Configs : c.flush_interval = 0})

\* ------------------------------------------------------------ log (119-154)
\* line 142 with > for >=: one entry more than max_buffer_size is let in
BufferIsFullStrict(buf, opts) == Len(buf) > opts.max_buffer_size

\* line 142 off by one the other way: the last free slot is refused
BufferIsFullEarly(buf, opts) == Len(buf) + 1 >= opts.max_buffer_size

\* client.py:142  len(self._buffer) >= self.options.max_buffer_size
BufferIsFull(buf, opts) == Len(buf) >= opts.max_buffer_size

\* client.py:153  len(self._buffer) >= self.options.batch_size
BatchReached(buf, opts) == Len(buf) >= opts.batch_size

\* client.py:147  self._metrics.logs_dropped += 1
CountRejected(m) == [m EXCEPT !.logs_dropped = @ + 1]

\* lines 129-133 with the trace context looked at before auto_trace_id
TraceSourceContextFirst(explicit, auto, ctx) ==
  IF explicit # None THEN "explicit"
  ELSE IF ctx # None THEN "context"
  ELSE IF auto THEN "auto"
  ELSE "none"

\* log, lines 129-133: where the entry's trace id comes from
TraceSource(explicit, auto, ctx) ==
  IF explicit # None THEN "explicit"
  ELSE IF auto THEN "auto"
  ELSE IF ctx # None THEN "context"
  ELSE "none"

\* {**global, **own} the other way round: the global value wins
MergeGlobalWins(global, own) ==
  global \cup {p \in own : p[1] \notin Keys(global)}

\* log, line 138: {**self.options.global_metadata, **entry.metadata}
Merge(global, own) ==
  own \cup {p \in global : p[1] \notin Keys(own)}

\* log, lines 137-138
MergedMetadata(opts, own) ==
  IF opts.global_metadata # {} THEN Merge(opts.global_metadata, own) ELSE own

\* log(entry), lines 126-138, for an entry with trace_id explicit and
\* metadata own: a closed client ignores the call; the trace id is the
\* entry's own, a new uuid, or (read in the next step) the trace context;
\* the global metadata is merged in
LogEnter(t, explicit, own) ==
  /\ pc[t] = "idle"
  /\ nextId <= MaxEntries
  /\ nextId' = nextId + 1
  /\ IF closed
     THEN UNCHANGED <<pc, entry, content, uuids>>
     ELSE LET src == TraceSource(explicit, options.auto_trace_id, trace_id)
          IN /\ entry' = [entry EXCEPT ![t] = nextId]
             /\ uuids' = IF src = "auto" THEN uuids + 1 ELSE uuids
             /\ content' = [content EXCEPT ![t] =
                   [id |-> nextId,
                    trace_id |-> CASE src = "explicit" -> explicit
                                   [] src = "auto" -> Uuid(uuids + 1)
                                   [] OTHER -> None,
                    metadata |-> MergedMetadata(options, own),
                    explicit |-> explicit,
                    own |-> own,
                    ctx |-> trace_id,
                    scope |-> IF scopes[t] = <<>> THEN None
                              ELSE scopes[t][Len(scopes[t])].id]]
             /\ pc' = [pc EXCEPT ![t] =
                   IF src = "context" THEN "log_trace" ELSE "log_lock"]
  /\ UNCHANGED <<options, closed, buffer, buffer_lock, metrics_lock, metrics,
                 latency_window, breaker, flush_timer, now, ret, logs,
                 attempt, delay, flushCalls, timerFires, accepted, drainCount,
                 cyc, rejected, closeLen, closeCalls, trace_id, scopes,
                 scopeCount, lastExit, bcall, snapshot, reading, resets,
                 breaker_lock, rf, opened, appended>>

\* log, line 134: entry.trace_id = self._trace_id
LogTrace(t) ==
  /\ pc[t] = "log_trace"
  /\ content' = [content EXCEPT ![t].trace_id = trace_id]
  /\ pc' = [pc EXCEPT ![t] = "log_lock"]
  /\ UNCHANGED <<options, closed, buffer, buffer_lock, metrics_lock, metrics,
                 latency_window, breaker, flush_timer, now, ret, entry, logs,
                 attempt, delay, nextId, flushCalls, timerFires, accepted,
                 drainCount, cyc, rejected, closeLen, closeCalls, trace_id,
                 scopes, uuids, scopeCount, lastExit, bcall, snapshot,
                 reading, resets, breaker_lock, rf, opened, appended>>

\* an application thread logs an entry without trace id or metadata
LogStart(t) ==
  /\ t \in AppThreads
  /\ LogEnter(t, None, {})

\* log, line 140: with self._buffer_lock
LogAcquire(t) ==
  /\ pc[t] = "log_lock"
  /\ LockFree(buffer_lock)
  /\ buffer_lock' = t
  /\ pc' = [pc EXCEPT ![t] = "log_check"]
  /\ UNCHANGED <<options, closed, buffer, metrics_lock, metrics,
                 latency_window, breaker, flush_timer, now, ret, entry, logs,
                 attempt, delay, nextId, flushCalls, timerFires, accepted,
                 drainCount, cyc, rejected, closeLen, closeCalls, trace_id,
                 scopes, content, uuids, scopeCount, lastExit, bcall,
                 snapshot, reading, resets, breaker_lock, rf, opened,
                 appended>>

\* the entry put in front of the buffer
AppendEntryFirst(buf, e) == <<e>> \o buf

\* log, line 150: self._buffer.append(entry)
AppendEntry(buf, e) == Append(buf, e)

\* log, lines 142-154: the capacity check, the append, the batch-size check
LogCheck(t) ==
  /\ pc[t] = "log_check"
  /\ IF BufferIsFull(buffer, options)
     THEN /\ pc' = [pc EXCEPT ![t] = "log_full_lock"]
          /\ UNCHANGED <<buffer, buffer_lock, ret, entry, accepted, content,
                         appended>>
     ELSE /\ buffer' = AppendEntry(buffer, entry[t])
          /\ appended' = Append(appended, entry[t])
          /\ accepted' = accepted \cup {entry[t]}
          /\ IF BatchReached(buffer', options)
             THEN /\ pc' = [pc EXCEPT ![t] = "flush_closed"]
                  /\ ret' = [ret EXCEPT ![t] = "log"]
                  /\ UNCHANGED <<buffer_lock, entry, content>>
             ELSE /\ pc' = [pc EXCEPT ![t] = "idle"]
                  /\ buffer_lock' = NoThread
                  /\ entry' = [entry EXCEPT ![t] = 0]
                  /\ content' = [content EXCEPT ![t] = ContentInit]
                  /\ UNCHANGED ret
  /\ UNCHANGED <<options, closed, metrics_lock, metrics, latency_window,
                 breaker, flush_timer, now, logs, attempt, delay, nextId,
                 flushCalls, timerFires, drainCount, cyc, rejected, closeLen,
                 closeCalls, trace_id, scopes, uuids, scopeCount, lastExit,
                 bcall, snapshot, reading, resets, breaker_lock, rf, opened>>

\* log, lines 146-148: count the drop under the metrics lock, raise BufferFullError
LogFullInc(t) ==
  /\ pc[t] = "log_full_inc"
  /\ metrics' = CountRejected(metrics)
  /\ metrics_lock' = NoThread
  /\ buffer_lock' = NoThread
  /\ rejected' = rejected + 1
  /\ entry' = [entry EXCEPT ![t] = 0]
  /\ content' = [content EXCEPT ![t] = ContentInit]
  /\ pc' = [pc EXCEPT ![t] = "idle"]
  /\ UNCHANGED <<options, closed, buffer, latency_window, breaker,
                 flush_timer, now, ret, logs, attempt, delay, nextId,
                 flushCalls, timerFires, accepted, drainCount, cyc, closeLen,
                 closeCalls, trace_id, scopes, uuids, scopeCount, lastExit,
                 bcall, snapshot, reading, resets, breaker_lock, rf, opened,
                 appended>>

\* log, line 146: with self._metrics_lock, the buffer lock still held
LogFullAcquire(t) ==
  /\ pc[t] = "log_full_lock"
  /\ LockFree(metrics_lock)
  /\ metrics_lock' = t
  /\ pc' = [pc EXCEPT ![t] = "log_full_inc"]
  /\ UNCHANGED <<options, closed, buffer, buffer_lock, metrics,
                 latency_window, breaker, flush_timer, now, ret, entry, logs,
                 attempt, delay, nextId, flushCalls, timerFires, accepted,
                 drainCount, cyc, rejected, closeLen, closeCalls, trace_id,
                 scopes, content, uuids, scopeCount, lastExit, bcall,
                 snapshot, reading, resets, breaker_lock, rf, opened,
                 appended>>

\* ---------------------------------------------------------- flush (264-277)
\* an application thread calls flush()
FlushStart(t) ==
  /\ t \in AppThreads
  /\ pc[t] = "idle"
  /\ flushCalls < MaxFlushCalls
  /\ flushCalls' = flushCalls + 1
  /\ pc' = [pc EXCEPT ![t] = "flush_closed"]
  /\ ret' = [ret EXCEPT ![t] = "none"]
  /\ UNCHANGED <<options, closed, buffer, buffer_lock, metrics_lock, metrics,
                 latency_window, breaker, flush_timer, now, entry, logs,
                 attempt, delay, nextId, timerFires, accepted, drainCount,
                 cyc, rejected, closeLen, closeCalls, trace_id, scopes,
                 content, uuids, scopeCount, lastExit, bcall, snapshot,
                 reading, resets, breaker_lock, rf, opened, appended>>

\* flush, lines 266-267
FlushClosed(t) ==
  /\ pc[t] = "flush_closed"
  /\ pc' = [pc EXCEPT ![t] = IF closed THEN "flush_ret" ELSE "flush_lock"]
  /\ UNCHANGED <<options, closed, buffer, buffer_lock, metrics_lock, metrics,
                 latency_window, breaker, flush_timer, now, ret, entry, logs,
                 attempt, delay, nextId, flushCalls, timerFires, accepted,
                 drainCount, cyc, rejected, closeLen, closeCalls, trace_id,
                 scopes, content, uuids, scopeCount, lastExit, bcall,
                 snapshot, reading, resets, breaker_lock, rf, opened,
                 appended>>

\* flush, line 269: with self._buffer_lock
FlushAcquire(t) ==
  /\ pc[t] = "flush_lock"
  /\ LockFree(buffer_lock)
  /\ buffer_lock' = t
  /\ pc' = [pc EXCEPT ![t] = "flush_copy"]
  /\ UNCHANGED <<options, closed, buffer, metrics_lock, metrics,
                 latency_window, breaker, flush_timer, now, ret, entry, logs,
                 attempt, delay, nextId, flushCalls, timerFires, accepted,
                 drainCount, cyc, rejected, closeLen, closeCalls, trace_id,
                 scopes, content, uuids, scopeCount, lastExit, bcall,
                 snapshot, reading, resets, breaker_lock, rf, opened,
                 appended>>

\* flush without lines 270-271: an empty buffer is copied and sent too
FlushCopyAlways(t) ==
  /\ pc[t] = "flush_copy"
  /\ logs' = [logs EXCEPT ![t] = buffer]
  /\ pc' = [pc EXCEPT ![t] = "flush_clear"]
  /\ UNCHANGED <<options, closed, buffer, buffer_lock, metrics_lock, metrics,
                 latency_window, breaker, flush_timer, now, ret, entry,
                 attempt, delay, nextId, flushCalls, timerFires, accepted,
                 drainCount, cyc, rejected, closeLen, closeCalls, trace_id,
                 scopes, content, uuids, scopeCount, lastExit, bcall,
                 snapshot, reading, resets, breaker_lock, rf, opened,
                 appended>>

\* flush, lines 270-273: nothing to send, or logs_to_send = self._buffer[:]
FlushCopy(t) ==
  /\ pc[t] = "flush_copy"
  /\ IF buffer = <<>>
     THEN /\ buffer_lock' = NoThread
          /\ pc' = [pc EXCEPT ![t] = "flush_ret"]
          /\ UNCHANGED logs
     ELSE /\ logs' = [logs EXCEPT ![t] = buffer]
          /\ pc' = [pc EXCEPT ![t] = "flush_clear"]
          /\ UNCHANGED buffer_lock
  /\ UNCHANGED <<options, closed, buffer, metrics_lock, metrics,
                 latency_window, breaker, flush_timer, now, ret, entry,
                 attempt, delay, nextId, flushCalls, timerFires, accepted,
                 drainCount, cyc, rejected, closeLen, closeCalls, trace_id,
                 scopes, content, uuids, scopeCount, lastExit, bcall,
                 snapshot, reading, resets, breaker_lock, rf, opened,
                 appended>>

\* flush, lines 274-277 and _send_logs_with_retry, lines 484-485:
\* self._buffer.clear(), the lock is released, the pipeline starts
FlushClear(t) ==
  /\ pc[t] = "flush_clear"
  /\ buffer' = <<>>
  /\ buffer_lock' = NoThread
  /\ attempt' = [attempt EXCEPT ![t] = 0]
  /\ delay' = [delay EXCEPT ![t] = options.retry_delay_ms]
  /\ drainCount' = [i \in EntryIds |->
        drainCount[i] + Cardinality({k \in 1..Len(logs[t]) : logs[t][k] = i})]
  /\ cyc' = [cyc EXCEPT ![t] = [CycInit EXCEPT !.phase = "running",
                                              !.n = Len(logs[t]),
                                              !.beforeClose = closeCalls = 0]]
  /\ pc' = [pc EXCEPT ![t] = "send_loop"]
  /\ UNCHANGED <<options, closed, metrics_lock, metrics, latency_window,
                 breaker, flush_timer, now, ret, entry, logs, nextId,
                 flushCalls, timerFires, accepted, rejected, closeLen,
                 closeCalls, trace_id, scopes, content, uuids, scopeCount,
                 lastExit, bcall, snapshot, reading, resets, breaker_lock, rf,
                 opened, appended>>

\* flush returns to its caller: the application, log (line 154, whose with
\* block ends), close (line 471) or _auto_flush (line 588)
FlushRet(t) ==
  /\ pc[t] = "flush_ret"
  /\ pc' = [pc EXCEPT ![t] = IF ret[t] = "timer" THEN "sched_closed" ELSE "idle"]
  /\ buffer_lock' = IF ret[t] = "log" THEN NoThread ELSE buffer_lock
  /\ closeLen' = IF ret[t] = "close" THEN Len(buffer) ELSE closeLen
  /\ ret' = [ret EXCEPT ![t] = "none"]
  /\ logs' = [logs EXCEPT ![t] = <<>>]
  /\ attempt' = [attempt EXCEPT ![t] = 0]
  /\ delay' = [delay EXCEPT ![t] = 0]
  /\ entry' = [entry EXCEPT ![t] = 0]
  /\ content' = [content EXCEPT ![t] = ContentInit]
  /\ cyc' = [cyc EXCEPT ![t] = CycInit]
  /\ UNCHANGED <<options, closed, buffer, metrics_lock, metrics,
                 latency_window, breaker, flush_timer, now, nextId,
                 flushCalls, timerFires, accepted, drainCount, rejected,
                 closeCalls, trace_id, scopes, uuids, scopeCount, lastExit,
                 bcall, snapshot, reading, resets, breaker_lock, rf, opened,
                 appended>>
\* ------------------------------------- _send_logs_with_retry (482-546)
\* line 487 and 525-528 with < for <=: one attempt fewer
MayAttemptStrict(a, opts) == a < opts.max_retries

\* client.py:487  while attempt <= self.options.max_retries
MayAttempt(a, opts) == a <= opts.max_retries

\* client.py:495 and 533  self._metrics.logs_dropped += len(logs)
CountDropped(m, batch) == [m EXCEPT !.logs_dropped = @ + Len(batch)]

\* logs_sent counting batches instead of entries
CountSentOne(m, batch) == [m EXCEPT !.logs_sent = @ + 1]

\* client.py:508  self._metrics.logs_sent += len(logs)
CountSent(m, batch) == [m EXCEPT !.logs_sent = @ + Len(batch)]

\* client.py:523-526  errors += 1, and retries += 1 while a retry is left
CountError(m, a, opts) ==
  [m EXCEPT !.errors = @ + 1,
            !.retries = IF a <= opts.max_retries THEN @ + 1 ELSE @]

\* client.py:546  self._metrics.circuit_breaker_trips += 1
CountTrip(m) == [m EXCEPT !.circuit_breaker_trips = @ + 1]

\* a backoff that waits the same delay every time
NextDelaySame(d) == d

\* client.py:541  delay *= 2
NextDelay(d) == d * 2

\* latencies a transport call is measured to take, in ms
Latencies == {1}

\* client.py:643  the latency window holds at most this many samples
WindowCapacity == 100

\* _update_latency evicting the sample it has just appended
UpdateWindowEvictsNewest(w, latency) ==
  LET a == Append(w, latency)
  IN  IF Len(a) > WindowCapacity THEN SubSeq(a, 1, WindowCapacity) ELSE a

\* _update_latency, lines 640-644: append, evict the oldest beyond the capacity
UpdateWindow(w, latency) ==
  LET a == Append(w, latency)
  IN  IF Len(a) > WindowCapacity THEN Tail(a) ELSE a

RECURSIVE SumSeq(_)
SumSeq(w) == IF w = <<>> THEN 0 ELSE Head(w) + SumSeq(Tail(w))

\* _update_latency, lines 647-650: the average, as the fraction <<sum, count>>
WindowAverage(w, old) == IF w # <<>> THEN <<SumSeq(w), Len(w)>> ELSE old

\* lines 487-496: the loop test, then the breaker's state is read
SendLoop(t) ==
  /\ pc[t] = "send_loop"
  /\ IF ~MayAttempt(attempt[t], options)
     THEN /\ pc' = [pc EXCEPT ![t] = "send_trip"]
          /\ UNCHANGED <<breaker, cyc>>
     ELSE /\ breaker' = StateRead
          /\ IF breaker'.state = "OPEN"
             THEN /\ pc' = [pc EXCEPT ![t] = "send_open_drop"]
                  /\ cyc' = [cyc EXCEPT ![t].sawOpen = TRUE,
                                        ![t].openFirst = (cyc[t].calls = 0)]
             ELSE /\ pc' = [pc EXCEPT ![t] = "send_call"]
                  /\ UNCHANGED cyc
  /\ UNCHANGED <<options, closed, buffer, buffer_lock, metrics_lock, metrics,
                 latency_window, flush_timer, now, ret, entry, logs, attempt,
                 delay, nextId, flushCalls, timerFires, accepted, drainCount,
                 rejected, closeLen, closeCalls, trace_id, scopes, content,
                 uuids, scopeCount, lastExit, bcall, snapshot, reading,
                 resets, breaker_lock, rf, opened, appended>>

\* CircuitBreakerOpenError handled as any other exception: one more failure
SendOpenDropCaught(t) ==
  /\ pc[t] = "send_open_drop"
  /\ LockFree(metrics_lock)
  /\ metrics' = CountDropped(metrics, logs[t])
  /\ cyc' = [cyc EXCEPT ![t] = CycAdd(@, metrics, metrics')]
  /\ pc' = [pc EXCEPT ![t] = "send_failure"]
  /\ UNCHANGED <<options, closed, buffer, buffer_lock, metrics_lock,
                 latency_window, breaker, flush_timer, now, ret, entry, logs,
                 attempt, delay, nextId, flushCalls, timerFires, accepted,
                 drainCount, rejected, closeLen, closeCalls, trace_id, scopes,
                 content, uuids, scopeCount, lastExit, bcall, snapshot,
                 reading, resets, breaker_lock, rf, opened, appended>>

\* lines 494-496 and 515-517: the batch is dropped, CircuitBreakerOpenError
\* ends the loop
SendOpenDrop(t) ==
  /\ pc[t] = "send_open_drop"
  /\ LockFree(metrics_lock)
  /\ metrics' = CountDropped(metrics, logs[t])
  /\ cyc' = [cyc EXCEPT ![t] = CycAdd(@, metrics, metrics')]
  /\ pc' = [pc EXCEPT ![t] = "send_trip"]
  /\ UNCHANGED <<options, closed, buffer, buffer_lock, metrics_lock,
                 latency_window, breaker, flush_timer, now, ret, entry, logs,
                 attempt, delay, nextId, flushCalls, timerFires, accepted,
                 drainCount, rejected, closeLen, closeCalls, trace_id, scopes,
                 content, uuids, scopeCount, lastExit, bcall, snapshot,
                 reading, resets, breaker_lock, rf, opened, appended>>

\* lines 499-501: self._send_logs(logs) returns or raises
SendCall(t) ==
  /\ pc[t] = "send_call"
  /\ \E ok \in BOOLEAN :
       /\ pc' = [pc EXCEPT ![t] = IF ok THEN "send_success" ELSE "send_failure"]
       /\ cyc' = [cyc EXCEPT ![t].calls = @ + 1,
                             ![t].failed = IF ok THEN @ ELSE @ + 1]
  /\ UNCHANGED <<options, closed, buffer, buffer_lock, metrics_lock, metrics,
                 latency_window, breaker, flush_timer, now, ret, entry, logs,
                 attempt, delay, nextId, flushCalls, timerFires, accepted,
                 drainCount, rejected, closeLen, closeCalls, trace_id, scopes,
                 content, uuids, scopeCount, lastExit, bcall, snapshot,
                 reading, resets, breaker_lock, rf, opened, appended>>

\* line 504: self._circuit_breaker.record_success()
SendSuccess(t) ==
  /\ pc[t] = "send_success"
  /\ breaker' = RecordSuccess(breaker)
  /\ pc' = [pc EXCEPT ![t] = "send_lat"]
  /\ UNCHANGED <<options, closed, buffer, buffer_lock, metrics_lock, metrics,
                 latency_window, flush_timer, now, ret, entry, logs, attempt,
                 delay, nextId, flushCalls, timerFires, accepted, drainCount,
                 cyc, rejected, closeLen, closeCalls, trace_id, scopes,
                 content, uuids, scopeCount, lastExit, bcall, snapshot,
                 reading, resets, breaker_lock, rf, opened, appended>>

\* line 505: self._update_latency(latency)
SendLat(t) ==
  /\ pc[t] = "send_lat"
  /\ LockFree(metrics_lock)
  /\ \E latency \in Latencies :
       /\ latency_window' = UpdateWindow(latency_window, latency)
       /\ metrics' = [metrics EXCEPT !.avg_latency_ms =
                        WindowAverage(latency_window', @)]
  /\ pc' = [pc EXCEPT ![t] = "send_sent"]
  /\ UNCHANGED <<options, closed, buffer, buffer_lock, metrics_lock, breaker,
                 flush_timer, now, ret, entry, logs, attempt, delay, nextId,
                 flushCalls, timerFires, accepted, drainCount, cyc, rejected,
                 closeLen, closeCalls, trace_id, scopes, content, uuids,
                 scopeCount, lastExit, bcall, snapshot, reading, resets,
                 breaker_lock, rf, opened, appended>>

\* lines 507-513: logs_sent is counted and the pipeline returns
SendSent(t) ==
  /\ pc[t] = "send_sent"
  /\ LockFree(metrics_lock)
  /\ metrics' = CountSent(metrics, logs[t])
  /\ cyc' = [cyc EXCEPT ![t] = [CycAdd(@, metrics, metrics') EXCEPT
                                  !.phase = "returned"]]
  /\ pc' = [pc EXCEPT ![t] = "flush_ret"]
  /\ UNCHANGED <<options, closed, buffer, buffer_lock, metrics_lock,
                 latency_window, breaker, flush_timer, now, ret, entry, logs,
                 attempt, delay, nextId, flushCalls, timerFires, accepted,
                 drainCount, rejected, closeLen, closeCalls, trace_id, scopes,
                 content, uuids, scopeCount, lastExit, bcall, snapshot,
                 reading, resets, breaker_lock, rf, opened, appended>>

\* lines 519-521: attempt += 1, self._circuit_breaker.record_failure()
SendFailure(t) ==
  /\ pc[t] = "send_failure"
  /\ attempt' = [attempt EXCEPT ![t] = @ + 1]
  /\ breaker' = RecordFailure(breaker, now, options.circuit_breaker_threshold)
  /\ opened' = IF breaker.state # "OPEN" /\ breaker'.state = "OPEN"
               THEN opened + 1 ELSE opened
  /\ pc' = [pc EXCEPT ![t] = "send_err"]
  /\ UNCHANGED <<options, closed, buffer, buffer_lock, metrics_lock, metrics,
                 latency_window, flush_timer, now, ret, entry, logs, delay,
                 nextId, flushCalls, timerFires, accepted, drainCount, cyc,
                 rejected, closeLen, closeCalls, trace_id, scopes, content,
                 uuids, scopeCount, lastExit, bcall, snapshot, reading,
                 resets, breaker_lock, rf, appended>>

\* lines 523-528: errors and retries are counted; out of retries or not
SendErr(t) ==
  /\ pc[t] = "send_err"
  /\ LockFree(metrics_lock)
  /\ metrics' = CountError(metrics, attempt[t], options)
  /\ cyc' = [cyc EXCEPT ![t] = CycAdd(@, metrics, metrics')]
  /\ pc' = [pc EXCEPT ![t] = IF ~MayAttempt(attempt[t], options)
                             THEN "send_drop" ELSE "send_sleep"]
  /\ UNCHANGED <<options, closed, buffer, buffer_lock, metrics_lock,
                 latency_window, breaker, flush_timer, now, ret, entry, logs,
                 attempt, delay, nextId, flushCalls, timerFires, accepted,
                 drainCount, rejected, closeLen, closeCalls, trace_id, scopes,
                 content, uuids, scopeCount, lastExit, bcall, snapshot,
                 reading, resets, breaker_lock, rf, opened, appended>>

\* lines 532-534: the batch is dropped after the last attempt
SendDrop(t) ==
  /\ pc[t] = "send_drop"
  /\ LockFree(metrics_lock)
  /\ metrics' = CountDropped(metrics, logs[t])
  /\ cyc' = [cyc EXCEPT ![t] = CycAdd(@, metrics, metrics')]
  /\ pc' = [pc EXCEPT ![t] = "send_trip"]
  /\ UNCHANGED <<options, closed, buffer, buffer_lock, metrics_lock,
                 latency_window, breaker, flush_timer, now, ret, entry, logs,
                 attempt, delay, nextId, flushCalls, timerFires, accepted,
                 drainCount, rejected, closeLen, closeCalls, trace_id, scopes,
                 content, uuids, scopeCount, lastExit, bcall, snapshot,
                 reading, resets, breaker_lock, rf, opened, appended>>

\* lines 540-541: time.sleep(delay); delay *= 2
SendSleep(t) ==
  /\ pc[t] = "send_sleep"
  /\ cyc' = [cyc EXCEPT ![t].sleeps = Append(@, delay[t])]
  /\ delay' = [delay EXCEPT ![t] = NextDelay(@)]
  /\ pc' = [pc EXCEPT ![t] = "send_loop"]
  /\ UNCHANGED <<options, closed, buffer, buffer_lock, metrics_lock, metrics,
                 latency_window, breaker, flush_timer, now, ret, entry, logs,
                 attempt, nextId, flushCalls, timerFires, accepted,
                 drainCount, rejected, closeLen, closeCalls, trace_id, scopes,
                 content, uuids, scopeCount, lastExit, bcall, snapshot,
                 reading, resets, breaker_lock, rf, opened, appended>>

\* line 544: after the loop the breaker's state is read again
SendTrip(t) ==
  /\ pc[t] = "send_trip"
  /\ breaker' = StateRead
  /\ IF breaker'.state = "OPEN"
     THEN /\ pc' = [pc EXCEPT ![t] = "send_trip_inc"]
          /\ UNCHANGED cyc
     ELSE /\ pc' = [pc EXCEPT ![t] = "flush_ret"]
          /\ cyc' = [cyc EXCEPT ![t].phase = "ended"]
  /\ UNCHANGED <<options, closed, buffer, buffer_lock, metrics_lock, metrics,
                 latency_window, flush_timer, now, ret, entry, logs, attempt,
                 delay, nextId, flushCalls, timerFires, accepted, drainCount,
                 rejected, closeLen, closeCalls, trace_id, scopes, content,
                 uuids, scopeCount, lastExit, bcall, snapshot, reading,
                 resets, breaker_lock, rf, opened, appended>>

\* lines 545-546: a trip is counted
SendTripInc(t) ==
  /\ pc[t] = "send_trip_inc"
  /\ LockFree(metrics_lock)
  /\ metrics' = CountTrip(metrics)
  /\ cyc' = [cyc EXCEPT ![t] = [CycAdd(@, metrics, metrics') EXCEPT
                                  !.phase = "ended"]]
  /\ pc' = [pc EXCEPT ![t] = "flush_ret"]
  /\ UNCHANGED <<options, closed, buffer, buffer_lock, metrics_lock,
                 latency_window, breaker, flush_timer, now, ret, entry, logs,
                 attempt, delay, nextId, flushCalls, timerFires, accepted,
                 drainCount, rejected, closeLen, closeCalls, trace_id, scopes,
                 content, uuids, scopeCount, lastExit, bcall, snapshot,
                 reading, resets, breaker_lock, rf, opened, appended>>

\* ---------------------------------------------------------- close (459-474)
\* close, line 461, never returning early
AlreadyClosedNever(c) == FALSE

\* close, line 461: if self._closed
AlreadyClosed(c) == c

\* lines 461-462: a closed client's close returns at once
CloseCheck(t) ==
  /\ t \in AppThreads
  /\ pc[t] = "idle"
  /\ closeCalls < MaxCloseCalls
  /\ closeCalls' = closeCalls + 1
  /\ IF AlreadyClosed(closed)
     THEN UNCHANGED pc
     ELSE pc' = [pc EXCEPT ![t] = "close_set"]
  /\ UNCHANGED <<options, closed, buffer, buffer_lock, metrics_lock, metrics,
                 latency_window, breaker, flush_timer, now, ret, entry, logs,
                 attempt, delay, nextId, flushCalls, timerFires, accepted,
                 drainCount, cyc, rejected, closeLen, trace_id, scopes,
                 content, uuids, scopeCount, lastExit, bcall, snapshot,
                 reading, resets, breaker_lock, rf, opened, appended>>

\* line 464: self._closed = True
CloseSet(t) ==
  /\ pc[t] = "close_set"
  /\ closed' = TRUE
  /\ pc' = [pc EXCEPT ![t] = "close_cancel"]
  /\ UNCHANGED <<options, buffer, buffer_lock, metrics_lock, metrics,
                 latency_window, breaker, flush_timer, now, ret, entry, logs,
                 attempt, delay, nextId, flushCalls, timerFires, accepted,
                 drainCount, cyc, rejected, closeLen, closeCalls, trace_id,
                 scopes, content, uuids, scopeCount, lastExit, bcall,
                 snapshot, reading, resets, breaker_lock, rf, opened,
                 appended>>

\* lines 467-471: the timer is cancelled if it has not fired, flush is called
CloseCancel(t) ==
  /\ pc[t] = "close_cancel"
  /\ flush_timer' = IF flush_timer = "armed" THEN "cancelled" ELSE flush_timer
  /\ pc' = [pc EXCEPT ![t] = "flush_closed"]
  /\ ret' = [ret EXCEPT ![t] = "close"]
  /\ UNCHANGED <<options, closed, buffer, buffer_lock, metrics_lock, metrics,
                 latency_window, breaker, now, entry, logs, attempt, delay,
                 nextId, flushCalls, timerFires, accepted, drainCount, cyc,
                 rejected, closeLen, closeCalls, trace_id, scopes, content,
                 uuids, scopeCount, lastExit, bcall, snapshot, reading,
                 resets, breaker_lock, rf, opened, appended>>

\* ------------------------------- _schedule_flush, _auto_flush (575-589)
\* the armed Timer expires and its thread starts _auto_flush
TimerFire ==
  /\ flush_timer = "armed"
  /\ pc[TimerThread] = "idle"
  /\ timerFires < MaxTimerFires
  /\ timerFires' = timerFires + 1
  /\ flush_timer' = "fired"
  /\ pc' = [pc EXCEPT ![TimerThread] = "auto_closed"]
  /\ UNCHANGED <<options, closed, buffer, buffer_lock, metrics_lock, metrics,
                 latency_window, breaker, now, ret, entry, logs, attempt,
                 delay, nextId, flushCalls, accepted, drainCount, cyc,
                 rejected, closeLen, closeCalls, trace_id, scopes, content,
                 uuids, scopeCount, lastExit, bcall, snapshot, reading,
                 resets, breaker_lock, rf, opened, appended>>

\* a firing after the counted ones: the timer goes on for as long as it is
\* re-armed
TimerFireOn ==
  /\ flush_timer = "armed"
  /\ pc[TimerThread] = "idle"
  /\ timerFires = MaxTimerFires
  /\ flush_timer' = "fired"
  /\ pc' = [pc EXCEPT ![TimerThread] = "auto_closed"]
  /\ UNCHANGED <<options, closed, buffer, buffer_lock, metrics_lock, metrics,
                 latency_window, breaker, now, ret, entry, logs, attempt,
                 delay, nextId, flushCalls, timerFires, accepted, drainCount,
                 cyc, rejected, closeLen, closeCalls, trace_id, scopes,
                 content, uuids, scopeCount, lastExit, bcall, snapshot,
                 reading, resets, breaker_lock, rf, opened, appended>>

\* _auto_flush, lines 587-588
AutoFlush ==
  /\ pc[TimerThread] = "auto_closed"
  /\ IF closed
     THEN /\ pc' = [pc EXCEPT ![TimerThread] = "idle"]
          /\ UNCHANGED ret
     ELSE /\ pc' = [pc EXCEPT ![TimerThread] = "flush_closed"]
          /\ ret' = [ret EXCEPT ![TimerThread] = "timer"]
  /\ UNCHANGED <<options, closed, buffer, buffer_lock, metrics_lock, metrics,
                 latency_window, breaker, flush_timer, now, entry, logs,
                 attempt, delay, nextId, flushCalls, timerFires, accepted,
                 drainCount, cyc, rejected, closeLen, closeCalls, trace_id,
                 scopes, content, uuids, scopeCount, lastExit, bcall,
                 snapshot, reading, resets, breaker_lock, rf, opened,
                 appended>>

\* _schedule_flush, lines 577-578, called from _auto_flush line 589
ScheduleFlush ==
  /\ pc[TimerThread] = "sched_closed"
  /\ pc' = [pc EXCEPT ![TimerThread] = IF closed THEN "idle" ELSE "sched_arm"]
  /\ UNCHANGED <<options, closed, buffer, buffer_lock, metrics_lock, metrics,
                 latency_window, breaker, flush_timer, now, ret, entry, logs,
                 attempt, delay, nextId, flushCalls, timerFires, accepted,
                 drainCount, cyc, rejected, closeLen, closeCalls, trace_id,
                 scopes, content, uuids, scopeCount, lastExit, bcall,
                 snapshot, reading, resets, breaker_lock, rf, opened,
                 appended>>

\* _schedule_flush, lines 580-583: a new Timer is created and started
ScheduleArm ==
  /\ pc[TimerThread] = "sched_arm"
  /\ flush_timer' = "armed"
  /\ pc' = [pc EXCEPT ![TimerThread] = "idle"]
  /\ UNCHANGED <<options, closed, buffer, buffer_lock, metrics_lock, metrics,
                 latency_window, breaker, now, ret, entry, logs, attempt,
                 delay, nextId, flushCalls, timerFires, accepted, drainCount,
                 cyc, rejected, closeLen, closeCalls, trace_id, scopes,
                 content, uuids, scopeCount, lastExit, bcall, snapshot,
                 reading, resets, breaker_lock, rf, opened, appended>>

\* time passes; the clock is read only by _check_half_open while the breaker
\* is OPEN (circuit_breaker.py:88-89), so only then does a tick show
Tick ==
  /\ now < MaxTime
  /\ breaker.state = "OPEN"
  /\ now' = now + 1
  /\ UNCHANGED <<options, closed, buffer, buffer_lock, metrics_lock, metrics,
                 latency_window, breaker, flush_timer, pc, ret, entry, logs,
                 attempt, delay, nextId, flushCalls, timerFires, accepted,
                 drainCount, cyc, rejected, closeLen, closeCalls, trace_id,
                 scopes, content, uuids, scopeCount, lastExit, bcall,
                 snapshot, reading, resets, breaker_lock, rf, opened,
                 appended>>

\* one step of thread t inside the log or flush call it is in
InnerStep(t) ==
  \/ LogAcquire(t) \/ LogCheck(t) \/ LogFullInc(t) \/ LogFullAcquire(t)
  \/ FlushClosed(t) \/ FlushAcquire(t) \/ FlushCopy(t)
  \/ FlushClear(t) \/ FlushRet(t)
  \/ SendLoop(t) \/ SendOpenDrop(t) \/ SendCall(t) \/ SendSuccess(t)
  \/ SendLat(t) \/ SendSent(t) \/ SendFailure(t) \/ SendErr(t) \/ SendDrop(t)
  \/ SendSleep(t) \/ SendTrip(t) \/ SendTripInc(t)

\* one step of thread t in log, flush or the send pipeline
WorkStep(t) == LogStart(t) \/ FlushStart(t) \/ InnerStep(t)

\* one step of thread t
Step(t) ==
  \/ WorkStep(t)
  \/ CloseCheck(t) \/ CloseSet(t) \/ CloseCancel(t)

\* application threads and the timer's thread
Next ==
  \/ \E t \in Threads : Step(t)
  \/ TimerFire \/ AutoFlush \/ ScheduleFlush \/ ScheduleArm
  \/ Tick

Spec == Init /\ [][Next]_vars

\* one application thread, no timer
SeqNext == Step(1) \/ Tick

SeqSpec == SeqInit /\ [][SeqNext]_vars

\* ------------------------------------------- trace context (66-117)
\* _normalize_trace_id, lines 591-603: any string is returned as it is
NormalizeTraceId(id) == id

\* the value line 104 puts back, had it been None instead of old_trace_id
RestoredNone(frame) == None

\* with_trace_id, line 104: self._trace_id = old_trace_id
Restored(frame) == frame.old

\* get_trace_id, lines 78-85
GetTraceId == trace_id

\* the innermost open scope of thread t
TopScope(t) == scopes[t][Len(scopes[t])]

\* set_trace_id, lines 73-76
SetTraceId(t) ==
  /\ pc[t] = "idle"
  /\ \E id \in TraceIds \cup {None} :
       trace_id' = IF id # None THEN NormalizeTraceId(id) ELSE None
  /\ UNCHANGED <<options, closed, buffer, buffer_lock, metrics_lock, metrics,
                 latency_window, breaker, flush_timer, now, pc, ret, entry,
                 logs, attempt, delay, nextId, flushCalls, timerFires,
                 accepted, drainCount, cyc, rejected, closeLen, closeCalls,
                 scopes, content, uuids, scopeCount, lastExit, bcall,
                 snapshot, reading, resets, breaker_lock, rf, opened,
                 appended>>

\* with_trace_id, line 100: old_trace_id = self._trace_id; n is the number
\* of uuids generated once the scope is entered
WithBegin(t, id, n) ==
  /\ pc[t] = "idle"
  /\ scopeCount < MaxScopes
  /\ scopeCount' = scopeCount + 1
  /\ uuids' = n
  /\ scopes' = [scopes EXCEPT ![t] =
        Append(@, [old |-> trace_id, id |-> id])]
  /\ pc' = [pc EXCEPT ![t] = "with_set"]
  /\ UNCHANGED <<options, closed, buffer, buffer_lock, metrics_lock, metrics,
                 latency_window, breaker, flush_timer, now, ret, entry, logs,
                 attempt, delay, nextId, flushCalls, timerFires, accepted,
                 drainCount, cyc, rejected, closeLen, closeCalls, trace_id,
                 content, lastExit, bcall, snapshot, reading, resets,
                 breaker_lock, rf, opened, appended>>

\* with client.with_trace_id(id)
WithTraceId(t) == \E id \in TraceIds : WithBegin(t, id, uuids)

\* with client.with_new_trace_id(), lines 115-116
WithNewTraceId(t) == WithBegin(t, Uuid(uuids + 1), uuids + 1)

\* with_trace_id, lines 101-103: self.set_trace_id(trace_id), the body starts
WithSet(t) ==
  /\ pc[t] = "with_set"
  /\ trace_id' = NormalizeTraceId(TopScope(t).id)
  /\ pc' = [pc EXCEPT ![t] = "idle"]
  /\ UNCHANGED <<options, closed, buffer, buffer_lock, metrics_lock, metrics,
                 latency_window, breaker, flush_timer, now, ret, entry, logs,
                 attempt, delay, nextId, flushCalls, timerFires, accepted,
                 drainCount, cyc, rejected, closeLen, closeCalls, scopes,
                 content, uuids, scopeCount, lastExit, bcall, snapshot,
                 reading, resets, breaker_lock, rf, opened, appended>>

\* with_trace_id, lines 103-104: the body returns or raises, finally restores
WithExit(t) ==
  /\ pc[t] = "idle"
  /\ scopes[t] # <<>>
  /\ trace_id' = Restored(TopScope(t))
  /\ scopes' = [scopes EXCEPT ![t] = SubSeq(@, 1, Len(@) - 1)]
  /\ \E raised \in BOOLEAN :
       lastExit' =
         [how |-> IF raised THEN "raised" ELSE "returned",
          old |-> TopScope(t).old, id |-> TopScope(t).id, by |-> t]
  /\ UNCHANGED <<options, closed, buffer, buffer_lock, metrics_lock, metrics,
                 latency_window, breaker, flush_timer, now, pc, ret, entry,
                 logs, attempt, delay, nextId, flushCalls, timerFires,
                 accepted, drainCount, cyc, rejected, closeLen, closeCalls,
                 content, uuids, scopeCount, bcall, snapshot, reading, resets,
                 breaker_lock, rf, opened, appended>>

\* log(entry) for an entry without trace id or metadata
LogPlain(t) == LogEnter(t, None, {})

\* one step of a thread that opens trace scopes and logs inside them
ScopeStep(t) ==
  \/ WithTraceId(t) \/ WithNewTraceId(t) \/ WithSet(t) \/ WithExit(t)
  \/ LogPlain(t) \/ LogTrace(t) \/ LogAcquire(t) \/ LogCheck(t)
  \/ LogFullAcquire(t) \/ LogFullInc(t)

\* auto_trace_id off, no global metadata
ScopeInit ==
  InitWith({c \in TraceConfigs :
              ~c.auto_trace_id /\ c.global_metadata = {}})

\* one thread
ScopeSeqNext == ScopeStep(1)

ScopeSeqSpec == ScopeInit /\ [][ScopeSeqNext]_vars

\* several threads on one client
ScopeNext == \E t \in ScopeThreads : ScopeStep(t)

ScopeSpec == ScopeInit /\ [][ScopeNext]_vars

\* ------------------------------------- the content of logged entries
\* log(entry) for any entry
LogAny(t) ==
  \E explicit \in ExplicitIds, own \in EntryMetas : LogEnter(t, explicit, own)

\* one thread sets the trace id and logs entries of every kind
EntryNext ==
  \/ SetTraceId(1)
  \/ LogAny(1) \/ LogTrace(1) \/ LogAcquire(1) \/ LogCheck(1)
  \/ LogFullAcquire(1) \/ LogFullInc(1)

EntryInit == InitWith(TraceConfigs)

EntrySpec == EntryInit /\ [][EntryNext]_vars

\* --------------------------------- the CircuitBreaker driven directly
\* a breaker of each configured threshold, on a client that is otherwise idle
BreakerSpecInit ==
  InitWith({c \in Configs : c.flush_interval = 0 /\ c.max_buffer_size = 10})

\* the state property, lines 36-41
BrState ==
  /\ bcall.pc = "idle"
  /\ breaker' = StateRead
  /\ bcall' = [bcall EXCEPT !.last = "state", !.prev = breaker,
                            !.streak = StreakAfterCheck(@, breaker, breaker')]
  /\ UNCHANGED <<options, closed, buffer, buffer_lock, metrics_lock, metrics,
                 latency_window, flush_timer, now, pc, ret, entry, logs,
                 attempt, delay, nextId, flushCalls, timerFires, accepted,
                 drainCount, cyc, rejected, closeLen, closeCalls, trace_id,
                 scopes, content, uuids, scopeCount, lastExit, snapshot,
                 reading, resets, breaker_lock, rf, opened, appended>>

\* record_success, lines 43-48
BrRecordSuccess ==
  /\ bcall.pc = "idle"
  /\ breaker' = RecordSuccess(breaker)
  /\ bcall' = [bcall EXCEPT !.last = "record_success", !.prev = breaker,
                            !.streak = 0]
  /\ UNCHANGED <<options, closed, buffer, buffer_lock, metrics_lock, metrics,
                 latency_window, flush_timer, now, pc, ret, entry, logs,
                 attempt, delay, nextId, flushCalls, timerFires, accepted,
                 drainCount, cyc, rejected, closeLen, closeCalls, trace_id,
                 scopes, content, uuids, scopeCount, lastExit, snapshot,
                 reading, resets, breaker_lock, rf, opened, appended>>

\* record_failure, lines 50-57
BrRecordFailure ==
  /\ bcall.pc = "idle"
  /\ breaker.failure_count < MaxFailures
  /\ breaker' = RecordFailure(breaker, now, options.circuit_breaker_threshold)
  /\ bcall' = [bcall EXCEPT !.last = "record_failure", !.prev = breaker,
                            !.streak = @ + 1]
  /\ UNCHANGED <<options, closed, buffer, buffer_lock, metrics_lock, metrics,
                 latency_window, flush_timer, now, pc, ret, entry, logs,
                 attempt, delay, nextId, flushCalls, timerFires, accepted,
                 drainCount, cyc, rejected, closeLen, closeCalls, trace_id,
                 scopes, content, uuids, scopeCount, lastExit, snapshot,
                 reading, resets, breaker_lock, rf, opened, appended>>

\* reset, lines 94-99
BrReset ==
  /\ bcall.pc = "idle"
  /\ breaker' = Reset(breaker)
  /\ bcall' = [bcall EXCEPT !.last = "reset", !.prev = breaker,
                            !.streak = 0]
  /\ UNCHANGED <<options, closed, buffer, buffer_lock, metrics_lock, metrics,
                 latency_window, flush_timer, now, pc, ret, entry, logs,
                 attempt, delay, nextId, flushCalls, timerFires, accepted,
                 drainCount, cyc, rejected, closeLen, closeCalls, trace_id,
                 scopes, content, uuids, scopeCount, lastExit, snapshot,
                 reading, resets, breaker_lock, rf, opened, appended>>

\* call, lines 72-76: the lazy check under the lock, CircuitBreakerOpenError
\* if the state is OPEN
BrCallCheck ==
  /\ bcall.pc = "idle"
  /\ breaker' = StateRead
  /\ IF CallRefused(breaker')
     THEN bcall' = [pc |-> "idle", invoked |-> 0, outcome |-> "CircuitOpen",
                    last |-> "call_refused", prev |-> breaker,
                    streak |-> StreakAfterCheck(bcall.streak, breaker,
                                                breaker')]
     ELSE bcall' = [pc |-> "call_func", invoked |-> 0, outcome |-> "none",
                    last |-> "call_check", prev |-> breaker,
                    streak |-> StreakAfterCheck(bcall.streak, breaker,
                                                breaker')]
  /\ UNCHANGED <<options, closed, buffer, buffer_lock, metrics_lock, metrics,
                 latency_window, flush_timer, now, pc, ret, entry, logs,
                 attempt, delay, nextId, flushCalls, timerFires, accepted,
                 drainCount, cyc, rejected, closeLen, closeCalls, trace_id,
                 scopes, content, uuids, scopeCount, lastExit, snapshot,
                 reading, resets, breaker_lock, rf, opened, appended>>

\* call, line 79: func() returns or raises
BrCallFunc ==
  /\ bcall.pc = "call_func"
  /\ \E ok \in BOOLEAN :
       /\ ok \/ breaker.failure_count < MaxFailures
       /\ bcall' = [bcall EXCEPT !.pc = IF ok THEN "call_ok" ELSE "call_err",
                                 !.invoked = @ + 1,
                                 !.last = "call_func"]
  /\ UNCHANGED <<options, closed, buffer, buffer_lock, metrics_lock, metrics,
                 latency_window, breaker, flush_timer, now, pc, ret, entry,
                 logs, attempt, delay, nextId, flushCalls, timerFires,
                 accepted, drainCount, cyc, rejected, closeLen, closeCalls,
                 trace_id, scopes, content, uuids, scopeCount, lastExit,
                 snapshot, reading, resets, breaker_lock, rf, opened,
                 appended>>

\* call, lines 80-81: record_success, return result
BrCallReturn ==
  /\ bcall.pc = "call_ok"
  /\ breaker' = RecordSuccess(breaker)
  /\ bcall' = [bcall EXCEPT !.pc = "idle", !.outcome = "result",
                            !.last = "record_success", !.prev = breaker,
                            !.streak = 0]
  /\ UNCHANGED <<options, closed, buffer, buffer_lock, metrics_lock, metrics,
                 latency_window, flush_timer, now, pc, ret, entry, logs,
                 attempt, delay, nextId, flushCalls, timerFires, accepted,
                 drainCount, cyc, rejected, closeLen, closeCalls, trace_id,
                 scopes, content, uuids, scopeCount, lastExit, snapshot,
                 reading, resets, breaker_lock, rf, opened, appended>>

\* call, lines 82-84: record_failure, raise e
BrCallRaise ==
  /\ bcall.pc = "call_err"
  /\ breaker' = RecordFailure(breaker, now, options.circuit_breaker_threshold)
  /\ bcall' = [bcall EXCEPT !.pc = "idle", !.outcome = "error",
                            !.last = "record_failure", !.prev = breaker,
                            !.streak = @ + 1]
  /\ UNCHANGED <<options, closed, buffer, buffer_lock, metrics_lock, metrics,
                 latency_window, flush_timer, now, pc, ret, entry, logs,
                 attempt, delay, nextId, flushCalls, timerFires, accepted,
                 drainCount, cyc, rejected, closeLen, closeCalls, trace_id,
                 scopes, content, uuids, scopeCount, lastExit, snapshot,
                 reading, resets, breaker_lock, rf, opened, appended>>

BreakerNext ==
  \/ BrState \/ BrRecordSuccess \/ BrRecordFailure \/ BrReset
  \/ BrCallCheck \/ BrCallFunc \/ BrCallReturn \/ BrCallRaise
  \/ Tick

BreakerSpec == BreakerSpecInit /\ [][BreakerNext]_vars

\* ------------------- record_failure, statement by statement (50-57)
\* a thread calls record_failure, once
RfStart(t) ==
  /\ rf[t].pc = "idle"
  /\ ~rf[t].done
  /\ rf' = [rf EXCEPT ![t].pc = "rf_lock"]
  /\ UNCHANGED <<options, closed, buffer, buffer_lock, metrics_lock, metrics,
                 latency_window, breaker, flush_timer, now, pc, ret, entry,
                 logs, attempt, delay, nextId, flushCalls, timerFires,
                 accepted, drainCount, cyc, rejected, closeLen, closeCalls,
                 trace_id, scopes, content, uuids, scopeCount, lastExit,
                 bcall, snapshot, reading, resets, breaker_lock, opened,
                 appended>>

\* line 52: with self._lock
RfAcquire(t) ==
  /\ rf[t].pc = "rf_lock"
  /\ LockFree(breaker_lock)
  /\ breaker_lock' = t
  /\ rf' = [rf EXCEPT ![t].pc = "rf_load"]
  /\ UNCHANGED <<options, closed, buffer, buffer_lock, metrics_lock, metrics,
                 latency_window, breaker, flush_timer, now, pc, ret, entry,
                 logs, attempt, delay, nextId, flushCalls, timerFires,
                 accepted, drainCount, cyc, rejected, closeLen, closeCalls,
                 trace_id, scopes, content, uuids, scopeCount, lastExit,
                 bcall, snapshot, reading, resets, opened, appended>>

\* line 53: self._failure_count += 1, the read
RfLoad(t) ==
  /\ rf[t].pc = "rf_load"
  /\ rf' = [rf EXCEPT ![t].pc = "rf_store",
                      ![t].loaded = breaker.failure_count]
  /\ UNCHANGED <<options, closed, buffer, buffer_lock, metrics_lock, metrics,
                 latency_window, breaker, flush_timer, now, pc, ret, entry,
                 logs, attempt, delay, nextId, flushCalls, timerFires,
                 accepted, drainCount, cyc, rejected, closeLen, closeCalls,
                 trace_id, scopes, content, uuids, scopeCount, lastExit,
                 bcall, snapshot, reading, resets, breaker_lock, opened,
                 appended>>

\* line 53: self._failure_count += 1, the write
RfStore(t) ==
  /\ rf[t].pc = "rf_store"
  /\ breaker' = [breaker EXCEPT !.failure_count = rf[t].loaded + 1]
  /\ rf' = [rf EXCEPT ![t].pc = "rf_time"]
  /\ UNCHANGED <<options, closed, buffer, buffer_lock, metrics_lock, metrics,
                 latency_window, flush_timer, now, pc, ret, entry, logs,
                 attempt, delay, nextId, flushCalls, timerFires, accepted,
                 drainCount, cyc, rejected, closeLen, closeCalls, trace_id,
                 scopes, content, uuids, scopeCount, lastExit, bcall,
                 snapshot, reading, resets, breaker_lock, opened, appended>>

\* line 54: self._last_failure_time = time.time()
RfTime(t) ==
  /\ rf[t].pc = "rf_time"
  /\ breaker' = [breaker EXCEPT !.last_failure_time = now]
  /\ rf' = [rf EXCEPT ![t].pc = "rf_check"]
  /\ UNCHANGED <<options, closed, buffer, buffer_lock, metrics_lock, metrics,
                 latency_window, flush_timer, now, pc, ret, entry, logs,
                 attempt, delay, nextId, flushCalls, timerFires, accepted,
                 drainCount, cyc, rejected, closeLen, closeCalls, trace_id,
                 scopes, content, uuids, scopeCount, lastExit, bcall,
                 snapshot, reading, resets, breaker_lock, opened, appended>>

\* lines 56-57: the threshold test; the lock is released
RfCheck(t) ==
  /\ rf[t].pc = "rf_check"
  /\ breaker' = [breaker EXCEPT !.state =
                   IF breaker.failure_count >= options.circuit_breaker_threshold
                   THEN "OPEN" ELSE @]
  /\ breaker_lock' = NoThread
  /\ rf' = [rf EXCEPT ![t].pc = "idle", ![t].done = TRUE]
  /\ UNCHANGED <<options, closed, buffer, buffer_lock, metrics_lock, metrics,
                 latency_window, flush_timer, now, pc, ret, entry, logs,
                 attempt, delay, nextId, flushCalls, timerFires, accepted,
                 drainCount, cyc, rejected, closeLen, closeCalls, trace_id,
                 scopes, content, uuids, scopeCount, lastExit, bcall,
                 snapshot, reading, resets, opened, appended>>

\* threads that each record one failure on the same breaker, and the clock
FailuresNext ==
  \/ \E t \in BreakerThreads :
       \/ RfStart(t) \/ RfAcquire(t) \/ RfLoad(t) \/ RfStore(t) \/ RfTime(t)
       \/ RfCheck(t)
  \/ Tick

FailuresSpec == BreakerSpecInit /\ [][FailuresNext]_vars

\* ------------------------- get_metrics and reset_metrics (427-448)
\* the thread that reads and resets the metrics
MetricsThread == NumThreads + 1

\* lines 436-441: the fields, in the order the constructor's arguments read them
MetricsFields ==
  <<"logs_sent", "logs_dropped", "errors", "retries", "avg_latency_ms",
    "circuit_breaker_trips">>

\* the ClientMetrics holding the values read
MetricsOf(values) ==
  [logs_sent |-> values[1], logs_dropped |-> values[2], errors |-> values[3],
   retries |-> values[4], avg_latency_ms |-> values[5],
   circuit_breaker_trips |-> values[6]]

\* get_metrics handing out self._metrics itself
SameClientMetrics(values) ==
  [ref |-> "live", val |-> MetricsOf(values), touched |-> FALSE]

\* lines 435-442: return ClientMetrics(...), a new object of the values read
NewClientMetrics(values) ==
  [ref |-> "copy", val |-> MetricsOf(values), touched |-> FALSE]

\* what the holder of the returned object reads in it
SnapshotValue == IF snapshot.ref = "live" THEN metrics ELSE snapshot.val

\* line 434: with self._metrics_lock
GetMetricsAcquire ==
  /\ pc[MetricsThread] = "idle"
  /\ LockFree(metrics_lock)
  /\ metrics_lock' = MetricsThread
  /\ reading' = <<>>
  /\ pc' = [pc EXCEPT ![MetricsThread] = "gm_read"]
  /\ UNCHANGED <<options, closed, buffer, buffer_lock, metrics,
                 latency_window, breaker, flush_timer, now, ret, entry, logs,
                 attempt, delay, nextId, flushCalls, timerFires, accepted,
                 drainCount, cyc, rejected, closeLen, closeCalls, trace_id,
                 scopes, content, uuids, scopeCount, lastExit, bcall,
                 snapshot, resets, breaker_lock, rf, opened, appended>>

\* lines 436-441: the next field of self._metrics is read
GetMetricsRead ==
  /\ pc[MetricsThread] = "gm_read"
  /\ Len(reading) < Len(MetricsFields)
  /\ reading' = Append(reading, metrics[MetricsFields[Len(reading) + 1]])
  /\ UNCHANGED <<options, closed, buffer, buffer_lock, metrics_lock, metrics,
                 latency_window, breaker, flush_timer, now, pc, ret, entry,
                 logs, attempt, delay, nextId, flushCalls, timerFires,
                 accepted, drainCount, cyc, rejected, closeLen, closeCalls,
                 trace_id, scopes, content, uuids, scopeCount, lastExit,
                 bcall, snapshot, resets, breaker_lock, rf, opened, appended>>

\* lines 435 and 442: the object is built and returned, the lock released
GetMetricsReturn ==
  /\ pc[MetricsThread] = "gm_read"
  /\ Len(reading) = Len(MetricsFields)
  /\ snapshot' = NewClientMetrics(reading)
  /\ reading' = <<>>
  /\ metrics_lock' = NoThread
  /\ pc' = [pc EXCEPT ![MetricsThread] = "idle"]
  /\ UNCHANGED <<options, closed, buffer, buffer_lock, metrics,
                 latency_window, breaker, flush_timer, now, ret, entry, logs,
                 attempt, delay, nextId, flushCalls, timerFires, accepted,
                 drainCount, cyc, rejected, closeLen, closeCalls, trace_id,
                 scopes, content, uuids, scopeCount, lastExit, bcall, resets,
                 breaker_lock, rf, opened, appended>>

\* models.py:80-89: ClientMetrics is a plain dataclass, its holder may assign
\* to a field of the object it was given
ModifySnapshot ==
  /\ pc[MetricsThread] = "idle"
  /\ snapshot.ref # "none"
  /\ ~snapshot.touched
  /\ IF snapshot.ref = "live"
     THEN /\ metrics' = [metrics EXCEPT !.logs_sent = @ + 1]
          /\ snapshot' = [snapshot EXCEPT !.touched = TRUE]
     ELSE /\ snapshot' = [snapshot EXCEPT !.val.logs_sent = @ + 1,
                                          !.touched = TRUE]
          /\ UNCHANGED metrics
  /\ UNCHANGED <<options, closed, buffer, buffer_lock, metrics_lock,
                 latency_window, breaker, flush_timer, now, pc, ret, entry,
                 logs, attempt, delay, nextId, flushCalls, timerFires,
                 accepted, drainCount, cyc, rejected, closeLen, closeCalls,
                 trace_id, scopes, content, uuids, scopeCount, lastExit,
                 bcall, reading, resets, breaker_lock, rf, opened, appended>>

\* lines 446-447: with self._metrics_lock: self._metrics = ClientMetrics()
ResetMetricsAssign ==
  /\ pc[MetricsThread] = "idle"
  /\ resets < MaxResets
  /\ LockFree(metrics_lock)
  /\ metrics_lock' = MetricsThread
  /\ metrics' = MetricsInit
  /\ resets' = resets + 1
  /\ pc' = [pc EXCEPT ![MetricsThread] = "rm_clear"]
  /\ UNCHANGED <<options, closed, buffer, buffer_lock, latency_window,
                 breaker, flush_timer, now, ret, entry, logs, attempt, delay,
                 nextId, flushCalls, timerFires, accepted, drainCount, cyc,
                 rejected, closeLen, closeCalls, trace_id, scopes, content,
                 uuids, scopeCount, lastExit, bcall, snapshot, reading,
                 breaker_lock, rf, opened, appended>>

\* line 448: self._latency_window.clear(), the lock is released
ResetMetricsClear ==
  /\ pc[MetricsThread] = "rm_clear"
  /\ latency_window' = <<>>
  /\ metrics_lock' = NoThread
  /\ pc' = [pc EXCEPT ![MetricsThread] = "idle"]
  /\ UNCHANGED <<options, closed, buffer, buffer_lock, metrics, breaker,
                 flush_timer, now, ret, entry, logs, attempt, delay, nextId,
                 flushCalls, timerFires, accepted, drainCount, cyc, rejected,
                 closeLen, closeCalls, trace_id, scopes, content, uuids,
                 scopeCount, lastExit, bcall, snapshot, reading, resets,
                 breaker_lock, rf, opened, appended>>

\* a client whose buffer is small, with and without retries
MetricsSpecInit ==
  InitWith({c \in Configs : /\ c.flush_interval = 0
                            /\ c.max_buffer_size = 2
                            /\ c.circuit_breaker_threshold # 1})

\* the latencies of n earlier sends, no two neighbours equal
SampleWindow(n) == [k \in 1..n |-> 1 + (k % 3)]

\* the window and the metrics after batches of one entry were sent with the
\* latencies of w
SentBefore(w) ==
  <<w, [MetricsInit EXCEPT !.logs_sent = Len(w),
                           !.avg_latency_ms = WindowAverage(w, @)]>>

\* a client that has sent nothing, or whose latency window is full or lacks
\* one or two samples
LatencySpecInit ==
  InitAfter({c \in Configs : /\ c.flush_interval = 0
                             /\ c.max_buffer_size = 2
                             /\ c.circuit_breaker_threshold # 1},
            {SentBefore(SampleWindow(n)) :
               n \in {0} \cup ((WindowCapacity - 2)..WindowCapacity)})

\* one application thread
LatencyNext == WorkStep(1) \/ Tick

LatencySpec == LatencySpecInit /\ [][LatencyNext]_vars

\* one application thread and one thread reading and resetting the metrics
MetricsNext ==
  \/ WorkStep(1) \/ Tick
  \/ GetMetricsAcquire \/ GetMetricsRead \/ GetMetricsReturn \/ ModifySnapshot
  \/ ResetMetricsAssign \/ ResetMetricsClear

MetricsSpec == MetricsSpecInit /\ [][MetricsNext]_vars

\* one application thread and one thread resetting the metrics
ResetNext ==
  \/ WorkStep(1) \/ Tick
  \/ ResetMetricsAssign \/ ResetMetricsClear

ResetSpec == MetricsSpecInit /\ [][ResetNext]_vars

\* ------------------------------------------- the flush timer left to itself
\* a client with a flush timer
TimerSpecInit == InitWith({c \in Configs : c.flush_interval > 0})

\* the application only logs and never closes the client; the timer fires
\* again and again
TimerNext ==
  \/ \E t \in Threads : LogStart(t) \/ InnerStep(t)
  \/ TimerFire \/ TimerFireOn \/ AutoFlush \/ ScheduleFlush \/ ScheduleArm
  \/ Tick

\* an armed timer fires (threading.Timer), and a thread inside a call goes on
\* with it: the transport returns or raises, a sleep ends, a free lock is taken
TimerFairness ==
  /\ WF_vars(TimerFire \/ TimerFireOn)
  /\ WF_vars(AutoFlush \/ ScheduleFlush \/ ScheduleArm)
  /\ \A t \in Threads : WF_vars(InnerStep(t))

TimerSpec == TimerSpecInit /\ [][TimerNext]_vars /\ TimerFairness

\* --------------------------------------- several threads logging at once
\* a client whose buffer is small, without a flush timer
BufferSpecInit ==
  InitWith({c \in Configs : /\ c.flush_interval = 0
                            /\ c.max_buffer_size = 2
                            /\ c.circuit_breaker_threshold = 1})

\* one step of a thread that only logs
LogOnlyStep(t) ==
  \/ LogPlain(t) \/ LogAcquire(t) \/ LogCheck(t)
  \/ LogFullAcquire(t) \/ LogFullInc(t)

\* an application thread that logs, flushes and closes beside threads that log
BufferNext ==
  \/ \E t \in AppThreads : Step(t)
  \/ \E t \in ScopeThreads \ AppThreads : LogOnlyStep(t)
  \/ Tick

BufferSpec == BufferSpecInit /\ [][BufferNext]_vars

\* ------------------------------------------------------------- properties
Occurrences(seq, i) == Cardinality({k \in 1..Len(seq) : seq[k] = i})

Elements(seq) == {seq[k] : k \in 1..Len(seq)}

NoDrainYet ==
  /\ \A i \in EntryIds : drainCount[i] = 0
  /\ \A t \in Threads : logs[t] = <<>>

\* thread t is reading the breaker's state property in this step
ReadsState(t) ==
  /\ pc'[t] # pc[t]
  /\ \/ pc[t] = "send_trip"
     \/ pc[t] = "send_loop" /\ attempt[t] <= options.max_retries

\* C1: a log call whose append brought the buffer to batch_size goes on to
\* drain the buffer and run the send pipeline: until it has returned, that
\* call can take its next step
C1_LogDrainsAtBatchSize ==
  \A t \in AppThreads : (ret[t] = "log" /\ pc[t] # "idle") => ENABLED Step(t)

\* C2: when the close() that closes the client returns, the buffer is empty
C2_CloseDrains == closeLen <= 0

\* C3: no thread waits for a lock that it holds itself
C3_NoSelfWait ==
  \A t \in Threads :
    /\ ~(pc[t] \in {"log_lock", "flush_lock"} /\ buffer_lock = t)
    /\ ~(pc[t] = "log_full_lock" /\ metrics_lock = t)

\* C4: a log call that finds len(buffer) >= max_buffer_size leaves the buffer
\* as it is, adds exactly 1 to logs_dropped and nothing to any other metric,
\* raises BufferFullError and starts no flush
C4_FullRejects ==
  [][\A t \in AppThreads :
       /\ (/\ pc[t] = "log_check"
           /\ Len(buffer) >= options.max_buffer_size
           /\ pc'[t] # pc[t])
          => /\ pc'[t] = "log_full_lock"
             /\ buffer' = buffer
             /\ metrics' = metrics
       /\ (pc[t] = "log_full_lock" /\ pc'[t] # pc[t])
          => /\ pc'[t] = "log_full_inc"
             /\ buffer' = buffer
             /\ metrics' = metrics
       /\ (pc[t] = "log_full_inc" /\ pc'[t] # pc[t])
          => /\ pc'[t] = "idle"
             /\ ret'[t] = "none"
             /\ rejected' = rejected + 1
             /\ buffer' = buffer
             /\ metrics' = [metrics EXCEPT !.logs_dropped = @ + 1]
             /\ logs' = logs
             /\ cyc' = cyc]_vars

C4_Witness ==
  /\ rejected = 1
  /\ metrics.logs_dropped = 1
  /\ Len(buffer) = options.max_buffer_size
  /\ pc[1] = "idle"

C6_DrainIndivisible ==
  \A i \in EntryIds :
    Occurrences(buffer, i) + drainCount[i] = IF i \in accepted THEN 1 ELSE 0

C6_Witness ==
  /\ pc[TimerThread] = "flush_lock"
  /\ pc[1] = "log_check"
  /\ buffer_lock = 1
  /\ \E i \in EntryIds : drainCount[i] = 1
  /\ buffer # <<>>

\* C7: a cycle whose every attempt failed and that never found the breaker
\* OPEN made max_retries + 1 transport calls and counted max_retries + 1
\* errors, max_retries retries, the batch dropped once and nothing sent
C7_AllAttemptsFail ==
  \A t \in Threads :
    (cyc[t].phase = "ended" /\ ~cyc[t].sawOpen)
    => /\ cyc[t].calls = options.max_retries + 1
       /\ cyc[t].failed = cyc[t].calls
       /\ cyc[t].errors = options.max_retries + 1
       /\ cyc[t].retries = options.max_retries
       /\ cyc[t].dropped = cyc[t].n
       /\ cyc[t].sent = 0

C7_Witness ==
  /\ cyc[1].phase = "ended"
  /\ ~cyc[1].sawOpen
  /\ options.max_retries = MaxRetries
  /\ cyc[1].calls = MaxRetries + 1
  /\ cyc[1].retries = MaxRetries
  /\ cyc[1].dropped = cyc[1].n
  /\ cyc[1].n > 0
  /\ breaker.state = "CLOSED"
  /\ breaker.failure_count = MaxRetries + 1

\* C8: a cycle that found the breaker OPEN at its first check called no
\* transport, dropped the batch, counted exactly one trip and no error,
\* retry or sent entry
C8_OpenAtStart ==
  \A t \in Threads :
    (cyc[t].phase = "ended" /\ cyc[t].openFirst)
    => /\ cyc[t].calls = 0
       /\ cyc[t].dropped = cyc[t].n
       /\ cyc[t].trips = 1
       /\ cyc[t].errors = 0
       /\ cyc[t].retries = 0
       /\ cyc[t].sent = 0

\* C9: the step that records a success sets failure_count to 0 and turns
\* HALF_OPEN into CLOSED; a cycle that returned on a success counted the
\* batch as sent, made no call after the successful one and counted neither
\* a drop nor a trip
C9_SuccessStep ==
  \A t \in Threads :
    (pc[t] = "send_success" /\ pc'[t] # pc[t])
    => /\ breaker'.failure_count = 0
       /\ breaker'.state =
            IF breaker.state = "HALF_OPEN" THEN "CLOSED" ELSE breaker.state
       /\ breaker'.last_failure_time = breaker.last_failure_time

C9_Returned ==
  \A t \in Threads :
    cyc[t].phase = "returned"
    => /\ cyc[t].sent = cyc[t].n
       /\ cyc[t].calls = cyc[t].failed + 1
       /\ cyc[t].dropped = 0
       /\ cyc[t].trips = 0
       /\ pc[t] = "flush_ret"

C9_SendSucceeds == [][C9_SuccessStep]_vars /\ []C9_Returned

C9_Witness ==
  /\ cyc[1].phase = "returned"
  /\ cyc[1].sent = cyc[1].n
  /\ cyc[1].n > 0
  /\ breaker.state = "CLOSED"
  /\ breaker.failure_count = 0
  /\ metrics.circuit_breaker_trips > 0

\* C10: while failure_count is at the threshold or above, the state is OPEN
\* and a state read made less than reset_timeout after the last failure
\* returns OPEN; a state read of an OPEN breaker made reset_timeout or more
\* after the last failure returns HALF_OPEN and leaves failure_count 0
C10_ReadStep ==
  \A t \in Threads :
    ReadsState(t)
    => /\ (/\ breaker.failure_count >= options.circuit_breaker_threshold
           /\ now - breaker.last_failure_time < options.circuit_breaker_reset_ms)
          => /\ breaker'.state = "OPEN"
             /\ pc'[t] \in {"send_open_drop", "send_trip_inc"}
       /\ (/\ breaker.state = "OPEN"
           /\ now - breaker.last_failure_time >= options.circuit_breaker_reset_ms)
          => /\ breaker'.state = "HALF_OPEN"
             /\ breaker'.failure_count = 0
             /\ pc'[t] \notin {"send_open_drop", "send_trip_inc"}

C10_OpenThenHalfOpen ==
  /\ [](breaker.failure_count >= options.circuit_breaker_threshold
         => breaker.state = "OPEN")
  /\ [][C10_ReadStep]_vars

C10_Witness ==
  /\ breaker.state = "HALF_OPEN"
  /\ breaker.failure_count = 0
  /\ now - breaker.last_failure_time >= options.circuit_breaker_reset_ms
  /\ metrics.errors >= options.circuit_breaker_threshold

\* C11: every recorded success, made directly or by call(), leaves
\* failure_count 0, turns HALF_OPEN into CLOSED and leaves any other state
\* and last_failure_time as they were
C11_RecordSuccess ==
  [][(bcall'.last = "record_success" /\ now' = now)
     => /\ breaker'.failure_count = 0
        /\ breaker'.state =
             IF breaker.state = "HALF_OPEN" THEN "CLOSED" ELSE breaker.state
        /\ breaker'.last_failure_time = breaker.last_failure_time]_vars

C11_Witness ==
  /\ bcall.last = "record_success"
  /\ bcall.prev.state = "HALF_OPEN"
  /\ bcall.prev.failure_count > 0
  /\ breaker.state = "CLOSED"
  /\ breaker.failure_count = 0

\* the state that the lazy check of lines 86-92 leaves is OPEN
C12_LazyOpen ==
  /\ breaker.state = "OPEN"
  /\ now - breaker.last_failure_time < options.circuit_breaker_reset_ms

C12_CallStep ==
  /\ (/\ bcall.pc = "idle"
      /\ bcall'.last \in {"call_refused", "call_check"}
      /\ now' = now)
     => IF C12_LazyOpen
        THEN /\ bcall'.pc = "idle"
             /\ bcall'.outcome = "CircuitOpen"
             /\ bcall'.invoked = 0
             /\ breaker' = breaker
        ELSE /\ bcall'.pc = "call_func"
             /\ bcall'.invoked = 0
             /\ breaker'.state # "OPEN"
  /\ (bcall.pc = "call_func" /\ bcall'.pc # "call_func")
     => /\ bcall'.pc \in {"call_ok", "call_err"}
        /\ bcall'.invoked = 1
        /\ breaker' = breaker
  /\ (bcall.pc = "call_ok" /\ bcall'.pc # "call_ok")
     => /\ bcall'.pc = "idle"
        /\ bcall'.outcome = "result"
        /\ bcall'.invoked = 1
        /\ breaker'.failure_count = 0
        /\ breaker'.state =
             IF breaker.state = "HALF_OPEN" THEN "CLOSED" ELSE breaker.state
  /\ (bcall.pc = "call_err" /\ bcall'.pc # "call_err")
     => /\ bcall'.pc = "idle"
        /\ bcall'.outcome = "error"
        /\ bcall'.invoked = 1
        /\ breaker'.failure_count = breaker.failure_count + 1
        /\ breaker'.last_failure_time = now
        /\ breaker'.state =
             IF breaker.failure_count + 1 >= options.circuit_breaker_threshold
             THEN "OPEN" ELSE breaker.state

\* C12: call(op) on a breaker whose lazily updated state is OPEN raises
\* CircuitBreakerOpenError without invoking op and without touching the
\* breaker; otherwise it invokes op exactly once, records a success and
\* returns op's result if op returns, records a failure and re-raises if op
\* raises
C12_Call == [][C12_CallStep]_vars

C12_Witness ==
  /\ bcall.last = "call_refused"
  /\ bcall.outcome = "CircuitOpen"
  /\ bcall.invoked = 0
  /\ breaker.state = "OPEN"
  /\ breaker = bcall.prev

\* C13: once self._closed is set, the timer's thread drains nothing from the
\* buffer (and so hands no batch to the transport)
C13_NoTimerDrainAfterClose ==
  [][~(/\ closed
       /\ pc[TimerThread] = "flush_copy"
       /\ pc'[TimerThread] = "flush_clear")]_vars

\* C14: at the step in which the closing close() returns, no other thread is
\* inside a send cycle that it started before close() was called
C14_NoFlushInFlight ==
  [][\A t \in AppThreads :
       (ret[t] = "close" /\ pc[t] = "flush_ret" /\ pc'[t] = "idle")
       => \A u \in Threads \ {t} :
            ~(cyc[u].phase = "running" /\ cyc[u].beforeClose)]_vars

\* C15: a close() call on a client that is already closed returns at once
\* and leaves buffer, metrics, breaker, timer and closed flag as they were;
\* it starts no flush and so no transport call
C15_CloseIdempotent ==
  [][\A t \in AppThreads :
       (closed /\ pc[t] = "idle" /\ closeCalls' = closeCalls + 1)
       => /\ pc'[t] = "idle"
          /\ closed' = closed
          /\ buffer' = buffer
          /\ metrics' = metrics
          /\ latency_window' = latency_window
          /\ breaker' = breaker
          /\ flush_timer' = flush_timer
          /\ logs' = logs
          /\ cyc' = cyc]_vars

C15_Witness ==
  /\ closed
  /\ closeCalls = 2
  /\ closeLen >= 0
  /\ pc[1] = "idle"
  /\ buffer # <<>>

\* C16: once close() has returned and no call is in progress, every entry
\* that was passed to log() is counted in logs_sent or logs_dropped and the
\* buffer is empty
C16_AllCounted ==
  (closeLen >= 0 /\ \A t \in Threads : pc[t] = "idle")
  => /\ Cardinality(accepted) + rejected
          = metrics.logs_sent + metrics.logs_dropped
     /\ buffer = <<>>

C17_Inside ==
  (pc[1] # "with_set" /\ scopes[1] # <<>>) => GetTraceId = TopScope(1).id

C17_ExitStep ==
  Len(scopes'[1]) < Len(scopes[1]) => trace_id' = TopScope(1).old

\* C17: in one thread, inside a with_trace_id scope get_trace_id returns the
\* scope's id, and leaving a scope, by return or by exception, puts back the
\* value held when it was entered; so after an inner scope the outer
\* scope's id is current again, at any depth
C17_ScopedTraceId == []C17_Inside /\ [][C17_ExitStep]_vars

C17_Witness ==
  /\ lastExit.how = "raised"
  /\ lastExit.id = "X"
  /\ lastExit.old = "Y"
  /\ Len(scopes[1]) = 1
  /\ TopScope(1).id = "Y"
  /\ GetTraceId = "Y"
  /\ pc[1] = "idle"

\* C18: an entry without trace id of its own, logged with auto_trace_id off
\* by a thread inside its with_trace_id scope, carries that scope's id
C18_ScopePerThread ==
  \A t \in ScopeThreads :
    (pc[t] = "log_check" /\ content[t].scope # None)
    => content[t].trace_id = content[t].scope

\* C19: the entry's trace id is its own if it has one, else a new uuid if
\* auto_trace_id is on, else the trace context's value at the call, else none
C19_TraceIdPrecedence ==
  pc[1] = "log_check"
  => LET c == content[1]
     IN IF c.explicit # None THEN c.trace_id = c.explicit
        ELSE IF options.auto_trace_id
             THEN uuids > 0 /\ c.trace_id = Uuid(uuids)
             ELSE c.trace_id = c.ctx

C19_Witness ==
  /\ pc[1] = "log_check"
  /\ ~BufferIsFull(buffer, options)
  /\ options.auto_trace_id
  /\ content[1].explicit = None
  /\ content[1].ctx = "X"
  /\ content[1].trace_id \in UuidSet
  /\ uuids = 2

\* C20: the entry's metadata has every key of global_metadata, keeps every
\* pair of the entry's own metadata, and takes the global value only for
\* keys the entry does not have
C20_MetadataMerge ==
  pc[1] = "log_check"
  => LET c == content[1]
         g == options.global_metadata
     IN /\ Keys(g) \subseteq Keys(c.metadata)
        /\ c.own \subseteq c.metadata
        /\ \A p \in c.metadata :
             p \in c.own \/ (p \in g /\ p[1] \notin Keys(c.own))
        /\ Cardinality(Keys(c.metadata)) = Cardinality(c.metadata)

C20_Witness ==
  /\ pc[1] = "log_check"
  /\ ~BufferIsFull(buffer, options)
  /\ <<"env", "e">> \in content[1].own
  /\ options.global_metadata = {<<"env", "g">>, <<"host", "g">>}
  /\ content[1].metadata = {<<"env", "e">>, <<"host", "g">>}

\* C21: get_metrics returns a copy of the six values the live metrics hold at
\* the instant it returns, all six read under one hold of the metrics lock;
\* no later step that changes the live metrics changes what the returned
\* object holds, and assigning to the returned object leaves the live metrics
\* as they are.
C21_ReturnStep ==
  pc[MetricsThread] = "gm_read" /\ pc'[MetricsThread] = "idle"

C21_ModifyStep == snapshot'.touched /\ ~snapshot.touched

C21_Step ==
  /\ C21_ReturnStep =>
       /\ snapshot'.ref # "none"
       /\ SnapshotValue' = metrics'
       /\ metrics' = metrics
  /\ (~C21_ReturnStep /\ snapshot.ref # "none" /\ metrics' # metrics) =>
       SnapshotValue' = SnapshotValue
  /\ C21_ModifyStep => metrics' = metrics

C21_SnapshotIsCopy == [][C21_Step]_vars

\* a snapshot taken after the first failed attempt, assigned to by its holder,
\* while the pipeline has gone on to count a second error
C21_Witness ==
  /\ resets = 0
  /\ snapshot.ref # "none"
  /\ snapshot.touched
  /\ snapshot.val.errors = 1
  /\ snapshot.val.logs_sent = 1
  /\ metrics.errors = 2
  /\ metrics.logs_sent = 0


\* C22: when reset_metrics returns, the five counters and the average latency
\* are 0 and the latency window is empty; its steps leave the buffer, the
\* breaker and the trace id as they were; in every step that is not a reset,
\* no counter decreases.
C22_Counters ==
  {"logs_sent", "logs_dropped", "errors", "retries", "circuit_breaker_trips"}

C22_AssignStep ==
  pc[MetricsThread] = "idle" /\ pc'[MetricsThread] = "rm_clear"

C22_ReturnStep ==
  pc[MetricsThread] = "rm_clear" /\ pc'[MetricsThread] = "idle"

C22_Step ==
  /\ C22_ReturnStep =>
       /\ \A f \in C22_Counters : metrics'[f] = 0
       /\ metrics'.avg_latency_ms[1] = 0
       /\ latency_window' = <<>>
  /\ (C22_AssignStep \/ C22_ReturnStep) =>
       /\ buffer' = buffer
       /\ breaker' = breaker
       /\ trace_id' = trace_id
  /\ ~C22_AssignStep =>
       \A f \in C22_Counters : metrics'[f] >= metrics[f]

C22_ResetMetrics == [][C22_Step]_vars

\* the second reset has just returned: a log call had counted a dropped entry
\* and the cycle of thread 1 a sent batch and a latency sample
C22_Witness ==
  /\ resets = 2
  /\ pc[MetricsThread] = "idle"
  /\ rejected > 0
  /\ cyc[1].phase = "returned"
  /\ cyc[1].sent > 0
  /\ metrics = MetricsInit
  /\ latency_window = <<>>


\* C23: a thread performing a flush, whether the timer's thread or a thread
\* whose log call reached batch_size, holds the buffer lock only while it
\* copies and clears the buffer: not on its way to the drain, not during the
\* transport calls and backoff sleeps of the send pipeline, so that a log call
\* of another thread can take the lock, append and return meanwhile
C23_Draining == {"flush_copy", "flush_clear"}

C23_InFlush ==
  {"flush_closed", "flush_lock", "flush_copy", "flush_clear", "send_loop",
   "send_open_drop", "send_call", "send_success", "send_lat", "send_sent",
   "send_failure", "send_err", "send_drop", "send_sleep", "send_trip",
   "send_trip_inc", "flush_ret"}

C23_SendBlocksNobody ==
  \A t \in Threads :
    (pc[t] \in C23_InFlush \ C23_Draining) => buffer_lock # t


\* C24: with a flush timer and a client that is never closed, every entry
\* appended to the buffer is eventually drained, with no flush call of the
\* application
C24_TimerDrains ==
  \A i \in EntryIds : (i \in accepted) ~> (drainCount[i] > 0)


\* C25: no thread holds the buffer lock and the metrics lock at the same time
C25_LocksApart ==
  \A t \in Threads : ~(buffer_lock = t /\ metrics_lock = t)


\* C26: once a send cycle has found the breaker OPEN at the top of an
\* iteration that follows a failed attempt, it makes no further transport
\* call and counts no further error or retry; when it has ended, every
\* transport call it made has been counted as one error and one retry, and
\* logs_dropped has grown by the batch size, once.
C26_FoundOpen(c) == c.sawOpen /\ ~c.openFirst

C26_Step ==
  \A t \in Threads :
    /\ (C26_FoundOpen(cyc[t]) /\ C26_FoundOpen(cyc'[t])) =>
         /\ cyc'[t].calls = cyc[t].calls
         /\ cyc'[t].errors = cyc[t].errors
         /\ cyc'[t].retries = cyc[t].retries
         /\ cyc'[t].dropped \in {cyc[t].dropped, cyc[t].n}
         /\ pc'[t] \in {"send_open_drop", "send_trip", "send_trip_inc",
                        "flush_ret"}
    /\ (C26_FoundOpen(cyc'[t]) /\ cyc'[t].phase = "ended") =>
         /\ cyc'[t].failed = cyc'[t].calls
         /\ cyc'[t].errors = cyc'[t].calls
         /\ cyc'[t].retries = cyc'[t].calls
         /\ cyc'[t].dropped = cyc'[t].n
         /\ cyc'[t].sent = 0

C26_OpenEndsLoop == [][C26_Step]_vars

\* a cycle with retries left that ended on an OPEN breaker after one failed
\* transport call
C26_Witness ==
  /\ options.max_retries = MaxRetries
  /\ C26_FoundOpen(cyc[1])
  /\ cyc[1].phase = "ended"
  /\ cyc[1].calls = 1
  /\ cyc[1].errors = 1
  /\ cyc[1].retries = 1
  /\ cyc[1].n > 0
  /\ cyc[1].dropped = cyc[1].n


\* C27: in a send cycle the k-th sleep lasts retry_delay_ms * 2^(k-1); there
\* are never more sleeps than failed attempts or than max_retries, and a
\* cycle that is over has slept once per failed attempt that left a retry,
\* so not after the last of max_retries + 1 failed attempts; with
\* retry_delay_ms = 100 and max_retries = 2 such a cycle slept 100, then 200,
\* 300 in all.
RECURSIVE C27_Pow2(_)
C27_Pow2(k) == IF k = 0 THEN 1 ELSE 2 * C27_Pow2(k - 1)

C27_Min(a, b) == IF a <= b THEN a ELSE b

C27_Backoff ==
  \A t \in Threads :
    LET c == cyc[t]
    IN  /\ \A k \in 1..Len(c.sleeps) :
             c.sleeps[k] = options.retry_delay_ms * C27_Pow2(k - 1)
        /\ Len(c.sleeps) <= C27_Min(c.failed, options.max_retries)
        /\ c.phase \in {"ended", "returned"} =>
             Len(c.sleeps) = C27_Min(c.failed, options.max_retries)
        /\ (/\ c.phase = "ended"
            /\ options.retry_delay_ms = 100
            /\ options.max_retries = 2
            /\ c.failed = 3) =>
             /\ c.sleeps = <<100, 200>>
             /\ SumSeq(c.sleeps) = 300

\* all three attempts of a cycle failed, with two sleeps between them
C27_Witness ==
  /\ options.retry_delay_ms = 100
  /\ options.max_retries = 2
  /\ cyc[1].phase = "ended"
  /\ cyc[1].failed = 3
  /\ cyc[1].sleeps = <<100, 200>>


\* C28: the breaker enters OPEN only in a step that records a failure, one
\* that raises failure_count by 1 to at least the threshold, and that failure
\* is the threshold-th recorded in a row since the last recorded success,
\* reset or move to HALF_OPEN; a failure that is not yet the threshold-th in
\* a row leaves a CLOSED or HALF_OPEN breaker in its state.
C28_Step ==
  /\ (breaker.state # "OPEN" /\ breaker'.state = "OPEN") =>
       /\ bcall'.last = "record_failure"
       /\ bcall'.streak = bcall.streak + 1
       /\ breaker'.failure_count = breaker.failure_count + 1
       /\ breaker'.failure_count >= options.circuit_breaker_threshold
       /\ bcall'.streak = options.circuit_breaker_threshold
  /\ (/\ bcall'.streak = bcall.streak + 1
      /\ breaker.state # "OPEN"
      /\ bcall'.streak < options.circuit_breaker_threshold) =>
       breaker'.state = breaker.state

C28_OpensAtThreshold == [][C28_Step]_vars

\* a HALF_OPEN breaker with threshold 3 and two failures recorded opened on
\* the third in a row
C28_Witness ==
  /\ options.circuit_breaker_threshold = 3
  /\ breaker.state = "OPEN"
  /\ bcall.prev.state = "HALF_OPEN"
  /\ bcall.prev.failure_count = 2
  /\ bcall.streak = 3
  /\ breaker.failure_count = 3


\* C29: a step of record_success, record_failure, call or a state read that
\* takes the breaker out of OPEN takes it to HALF_OPEN, is the lazy check of
\* a state read or of call, and is made when at least reset_timeout_ms have
\* passed since last_failure_time; a state read made earlier leaves the
\* breaker OPEN; only reset() takes the breaker from OPEN to CLOSED.
C29_Elapsed ==
  now - breaker.last_failure_time >= options.circuit_breaker_reset_ms

C29_Step ==
  /\ (breaker.state = "OPEN" /\ breaker'.state # "OPEN") =>
       IF bcall'.last = "reset"
       THEN breaker'.state = "CLOSED"
       ELSE /\ breaker'.state = "HALF_OPEN"
            /\ bcall'.last \in {"state", "call_check"}
            /\ C29_Elapsed
  /\ (/\ bcall'.last = "state"
      /\ bcall'.prev = breaker
      /\ now' = now
      /\ breaker.state = "OPEN"
      /\ ~C29_Elapsed) =>
       breaker' = breaker

C29_OutOfOpen == [][C29_Step]_vars

\* reset_timeout_ms have passed, and a success recorded on the OPEN breaker
\* has left it OPEN
C29_Witness ==
  /\ bcall.last = "record_success"
  /\ bcall.prev.state = "OPEN"
  /\ bcall.prev.failure_count > 0
  /\ C29_Elapsed
  /\ breaker.state = "OPEN"
  /\ breaker.failure_count = 0


\* C30: when threads have each called record_failure once on a breaker that
\* started CLOSED with failure_count 0, and none is inside the call, then
\* failure_count is the number of those threads, and the breaker is OPEN if
\* that number is at least the threshold and CLOSED otherwise
C30_Recorded == {t \in BreakerThreads : rf[t].done}

C30_NoLostFailure ==
  (\A t \in BreakerThreads : rf[t].pc = "idle") =>
    /\ breaker.failure_count = Cardinality(C30_Recorded)
    /\ breaker.state =
         IF Cardinality(C30_Recorded) >= options.circuit_breaker_threshold
         THEN "OPEN" ELSE "CLOSED"

\* every thread has recorded its failure, and the last of them opened a
\* breaker whose threshold is above 1
C30_Witness ==
  /\ C30_Recorded = BreakerThreads
  /\ options.circuit_breaker_threshold > 1
  /\ breaker.failure_count = MaxCallers
  /\ breaker.state = "OPEN"


\* C31: while the metrics have not been reset, circuit_breaker_trips is at
\* most the number of moves of the breaker into OPEN
C31_TripsAreOpenings ==
  resets = 0 => metrics.circuit_breaker_trips <= opened


\* C32: the latency window never holds more than 100 samples; the latency
\* update of a successful send appends one sample, after removing the oldest
\* one if the window already held 100, and leaves avg_latency_ms equal to the
\* sum of the window's samples over their number; no other step of log, flush
\* or the send pipeline changes the window.
C32_UpdateStep == pc[1] = "send_lat" /\ pc'[1] = "send_sent"

C32_Step ==
  LET w == latency_window
      w2 == latency_window'
  IN  /\ Len(w) <= 100
      /\ Len(w2) <= 100
      /\ C32_UpdateStep =>
           /\ w2 # <<>>
           /\ w2 = Append(IF Len(w) = 100 THEN Tail(w) ELSE w, w2[Len(w2)])
           /\ metrics'.avg_latency_ms = <<SumSeq(w2), Len(w2)>>
      /\ ~C32_UpdateStep => w2 = w

C32_LatencyWindow == [][C32_Step]_vars

\* a successful send on a full window: its oldest sample is gone, the new
\* one is last
C32_Witness ==
  /\ pc[1] = "send_sent"
  /\ Len(latency_window) = 100
  /\ Head(latency_window) = SampleWindow(100)[2]
  /\ latency_window[99] = SampleWindow(100)[100]
  /\ latency_window[100] \in Latencies
  /\ metrics.avg_latency_ms = <<SumSeq(latency_window), 100>>
  /\ metrics.logs_sent = 100


\* C33: a flush that finds the buffer empty returns without entering the
\* send pipeline, and no step of it, from the call to the return, changes
\* the buffer, a metric, the latency window or the breaker
C33_Unchanged ==
  /\ buffer' = buffer
  /\ metrics' = metrics
  /\ latency_window' = latency_window
  /\ breaker' = breaker

C33_Step ==
  \A t \in Threads :
    /\ (pc[t] \in {"flush_closed", "flush_lock"} /\ pc'[t] # pc[t]) =>
         C33_Unchanged
    /\ (pc[t] = "flush_copy" /\ buffer = <<>> /\ pc'[t] # pc[t]) =>
         /\ pc'[t] = "flush_ret"
         /\ cyc'[t] = CycInit
         /\ C33_Unchanged
    /\ (pc[t] = "flush_ret" /\ cyc[t] = CycInit /\ pc'[t] # pc[t]) =>
         /\ pc'[t] \in {"idle", "sched_closed"}
         /\ C33_Unchanged

C33_EmptyFlush == [][C33_Step]_vars

\* a flush of the open client found the buffer empty and is about to return;
\* the breaker is still OPEN although its reset timeout has passed
C33_Witness ==
  /\ pc[1] = "flush_ret"
  /\ ret[1] = "none"
  /\ ~closed
  /\ cyc[1] = CycInit
  /\ buffer = <<>>
  /\ breaker.state = "OPEN"
  /\ now - breaker.last_failure_time >= options.circuit_breaker_reset_ms
  /\ metrics.logs_dropped > 0


\* C34: the buffer never holds more than max_buffer_size entries
C34_BufferBounded == Len(buffer) <= options.max_buffer_size

\* the buffer is full: a logging thread is being refused while the
\* application thread is inside close()
C34_Witness ==
  /\ Len(buffer) = options.max_buffer_size
  /\ \E t \in ScopeThreads \ AppThreads : pc[t] = "log_full_inc"
  /\ \E t \in AppThreads : pc[t] = "close_set"

\* C35: a send cycle on a batch of n entries adds to logs_sent and
\* logs_dropped at most n in all while it runs, and once it is over it has
\* added n to one of the two and nothing to the other
C35_OneOfSentDropped ==
  \A t \in Threads :
    LET c == cyc[t]
    IN  /\ c.phase = "running" =>
             /\ c.n > 0
             /\ <<c.sent, c.dropped>> \in {<<0, 0>>, <<0, c.n>>}
        /\ c.phase \in {"ended", "returned"} =>
             /\ c.n > 0
             /\ <<c.sent, c.dropped>> \in {<<c.n, 0>>, <<0, c.n>>}
        /\ c.phase = "returned" => c.sent = c.n

\* a cycle on a batch of two that failed once, found the breaker OPEN at its
\* next iteration and is over
C35_Witness ==
  /\ cyc[1].phase = "ended"
  /\ cyc[1].n = 2
  /\ cyc[1].failed = 1
  /\ cyc[1].sawOpen
  /\ cyc[1].sent = 0
  /\ cyc[1].dropped = 2

\* C36: whenever the client's breaker is OPEN its failure_count is at least
\* the threshold, under concurrent flushes too
C36_OpenHasThreshold ==
  breaker.state = "OPEN" =>
    breaker.failure_count >= options.circuit_breaker_threshold


\* C37: no thread is about to begin a transport send while a read of the
\* breaker's state would return OPEN
C37_NoSendWhileOpen ==
  \A t \in Threads : pc[t] = "send_call" => StateRead.state # "OPEN"

\* b is a run of consecutive elements of h
C38_IsSegment(b, h) ==
  \E k \in 0..(Len(h) - Len(b)) : \A i \in 1..Len(b) : b[i] = h[k + i]

\* C38: the batch a thread is about to hand to the transport is not empty and
\* lists entries in the order in which log appended them to the buffer
C38_BatchInAppendOrder ==
  \A t \in Threads :
    pc[t] = "send_call" => logs[t] # <<>> /\ C38_IsSegment(logs[t], appended)

\* a batch of two entries at the transport call whose second entry entered
\* log before its first one
C38_Witness ==
  /\ pc[1] = "send_call"
  /\ Len(logs[1]) = 2
  /\ logs[1][1] > logs[1][2]
  /\ appended = logs[1]

====
